---- MODULE Spec2Model ----
(***************************************************************************)
(* A model of the office service (src/main.py): one file path served by    *)
(* the Word, Excel and PowerPoint handlers.  Every handler is a full       *)
(* load - mutate - save cycle against the file on disk; the file is the    *)
(* only persisted state.  Texts are sequences of one-character strings so  *)
(* that Python's substring test, str.replace and "\n".join are computed,   *)
(* not assumed.  An optional request field is <<>> (None) or <<v>>.        *)
(***************************************************************************)
EXTENDS Integers, Sequences, FiniteSets, TLC

VARIABLES
    file,   \* the content of the file at the request's file_path
    last,   \* the last request served: operation, request, file before, response
    conc    \* the event loop with two in-flight requests (specification SpecLoop)

vars == <<file, last, conc>>

(***************************************************************************)
(* Bounds of the model.                                                    *)
(***************************************************************************)
MaxBlocks == 2      \* body blocks (paragraphs and tables) of a Word document
MaxSheets == 2      \* sheets of a workbook
MaxRow == 3         \* rows of a sheet
MaxCol == 2         \* columns of a sheet
MaxCells == 3       \* cells of a workbook
MaxSlides == 3      \* slides of a presentation
MaxShapes == 6      \* shapes of a presentation, over all its slides
MaxDrawn == 2       \* shapes of a presentation that are no placeholders
MaxNotes == 1       \* notes slides of a presentation

(***************************************************************************)
(* Python values.                                                          *)
(***************************************************************************)
None == <<>>
Some(v) == <<v>>
IsSet(o) == Len(o) = 1
Val(o) == o[1]

\* Python truthiness of an Optional[str] / str field: None and "" are false.
Truthy(o) == IsSet(o) /\ Val(o) # <<>>

\* seq[i] for a Python int i: valid for -n <= i < n, negative counts from the end.
PyInRange(i, n) == i >= -n /\ i < n
PyPos(i, n) == IF i >= 0 THEN i + 1 ELSE n + i + 1

RECURSIVE Concat(_)
Concat(ss) == IF ss = <<>> THEN <<>> ELSE Head(ss) \o Concat(Tail(ss))

\* sep.join(ss)
RECURSIVE Join(_, _)
Join(ss, sep) ==
    IF ss = <<>> THEN <<>>
    ELSE IF Len(ss) = 1 THEN ss[1]
    ELSE ss[1] \o sep \o Join(Tail(ss), sep)

RemoveAt(s, k) == [j \in 1..(Len(s) - 1) |-> IF j < k THEN s[j] ELSE s[j + 1]]

\* sub in t
Contains(t, sub) ==
    \E i \in 0..(Len(t) - Len(sub)) : SubSeq(t, i + 1, i + Len(sub)) = sub

StartsWith(t, sub) == Len(sub) <= Len(t) /\ SubSeq(t, 1, Len(sub)) = sub

\* t.replace(sub, rep): leftmost non-overlapping occurrences; an empty sub
\* matches before every character and at the end.
RECURSIVE ReplaceEmpty(_, _)
ReplaceEmpty(t, rep) ==
    IF t = <<>> THEN rep ELSE rep \o <<Head(t)>> \o ReplaceEmpty(Tail(t), rep)

RECURSIVE ReplaceNonEmpty(_, _, _)
ReplaceNonEmpty(t, sub, rep) ==
    IF t = <<>> THEN <<>>
    ELSE IF StartsWith(t, sub)
         THEN rep \o ReplaceNonEmpty(SubSeq(t, Len(sub) + 1, Len(t)), sub, rep)
         ELSE <<Head(t)>> \o ReplaceNonEmpty(Tail(t), sub, rep)

PyReplace(t, sub, rep) ==
    IF sub = <<>> THEN ReplaceEmpty(t, rep) ELSE ReplaceNonEmpty(t, sub, rep)

(***************************************************************************)
(* Files and responses.                                                    *)
(***************************************************************************)
Absent == [kind |-> "absent"]
Corrupt == [kind |-> "corrupt"]

NoData == [none |-> TRUE]

\* return ApiResponse(...) after the save
Ok(mem, data) ==
    [code |-> 200, detail |-> "success", mem |-> mem, save |-> TRUE, data |-> data]
\* a read-type handler that writes the document back before it returns
OkSaving(mem, data) ==
    [code |-> 200, detail |-> "success", mem |-> mem, save |-> TRUE, data |-> data]
\* return ApiResponse(...) of a read-type handler: no save
OkRead(mem, data) ==
    [code |-> 200, detail |-> "success", mem |-> mem, save |-> FALSE, data |-> data]
\* raise HTTPException(status_code=400, ...), re-raised by `except HTTPException`
Err400(detail, mem) ==
    [code |-> 400, detail |-> detail, mem |-> mem, save |-> FALSE, data |-> NoData]
\* a handler that saves in a finally clause: the save runs on the error path too
ExcAfterSave(detail, mem) ==
    [code |-> 500, detail |-> detail, mem |-> mem, save |-> TRUE, data |-> NoData]

\* except Exception as e: raise HTTPException(status_code=500, detail=str(e))
Exc(detail, mem) ==
    [code |-> 500, detail |-> detail, mem |-> mem, save |-> FALSE, data |-> NoData]

\* Document(path) / load_workbook(path) / Presentation(path) on a file that is
\* missing or is not a container of the expected format raises.
OpenFail(f) ==
    IF f.kind = "absent" THEN Exc("no_such_file", f) ELSE Exc("bad_container", f)

(***************************************************************************)
(* Word: the document tree.  The body is the ordered sequence of block     *)
(* elements; doc.paragraphs and doc.tables are its paragraphs and its      *)
(* tables, each in body order.                                             *)
(***************************************************************************)
Normal == <<"Normal", 0>>

Run(text) == [text |-> text, bold |-> None, color |-> None]
\* link: the text of a w:hyperlink child of the paragraph, if it has one
Paragraph(style, runs) == [type |-> "p", style |-> style, runs |-> runs, link |-> None]
Table(ncols, rows, style) ==
    [type |-> "tbl", ncols |-> ncols, rows |-> rows, style |-> style]
\* header, footer: the text of the first section's header / footer definition
Docx(body) == [kind |-> "docx", body |-> body, header |-> None, footer |-> None]
WithBody(doc, body) == [doc EXCEPT !.body = body]

\* doc.add_paragraph(text, style): a run is added only for a non-empty text
AddParagraph(body, text, style) ==
    Append(body, Paragraph(style, IF text # <<>> THEN <<Run(text)>> ELSE <<>>))

\* positions in the body of doc.paragraphs / doc.tables
ParaPositions(body) ==
    SelectSeq([i \in 1..Len(body) |-> i], LAMBDA i : body[i].type = "p")
TablePositions(body) ==
    SelectSeq([i \in 1..Len(body) |-> i], LAMBDA i : body[i].type = "tbl")

\* paragraph.text: the text of the runs, then of the hyperlink (python-docx 1.x
\* counts the text of a hyperlink)
ParaText(p) ==
    Concat([i \in 1..Len(p.runs) |-> p.runs[i].text])
        \o (IF IsSet(p.link) THEN Val(p.link) ELSE <<>>)

\* the data of word_read
WordReadData(doc) ==
    LET pp == ParaPositions(doc.body)
        tp == TablePositions(doc.body)
    IN [paragraphs |-> [k \in 1..Len(pp) |-> ParaText(doc.body[pp[k]])],
        tables |-> [k \in 1..Len(tp) |-> doc.body[tp[k]].rows]]

word_read_handler(f, req) ==
    IF f.kind # "docx" THEN OpenFail(f) ELSE OkRead(f, WordReadData(f))

\* doc.add_heading(h.get("text", ""), level=h.get("level", 1)) for each heading in
\* order; add_heading raises ValueError for a level outside 0..9.
HeadingText(h) == IF IsSet(h.text) THEN Val(h.text) ELSE <<>>
HeadingLevel(h) == IF IsSet(h.level) THEN Val(h.level) ELSE 1
HeadingStyle(level) == IF level = 0 THEN <<"Title", 0>> ELSE <<"Heading", level>>

RECURSIVE AddHeadings(_, _)
AddHeadings(body, hs) ==
    IF hs = <<>> THEN [ok |-> TRUE, body |-> body]
    ELSE LET lvl == HeadingLevel(Head(hs)) IN
         IF lvl < 0 \/ lvl > 9 THEN [ok |-> FALSE, body |-> body]
         ELSE AddHeadings(AddParagraph(body, HeadingText(Head(hs)), HeadingStyle(lvl)),
                          Tail(hs))

RECURSIVE AddParagraphs(_, _)
AddParagraphs(body, ps) ==
    IF ps = <<>> THEN body
    ELSE AddParagraphs(AddParagraph(body, Head(ps), Normal), Tail(ps))

\* word_create: a new document, saved over whatever the path held
word_create_handler(f, req) ==
    LET b0 == IF Truthy(req.title)
              THEN AddParagraph(<<>>, Val(req.title), <<"Heading", 1>>)
              ELSE <<>>
    IN Ok(Docx(AddParagraphs(b0, req.paragraphs)), NoData)

\* a handler that appends the plain paragraphs first and the headings after
word_add_content_paragraphs_first(f, req) ==
    IF f.kind # "docx" THEN OpenFail(f)
    ELSE LET b == AddParagraphs(f.body, req.paragraphs)
             h == IF IsSet(req.headings) /\ Val(req.headings) # <<>>
                  THEN AddHeadings(b, Val(req.headings))
                  ELSE [ok |-> TRUE, body |-> b]
         IN IF ~h.ok THEN Exc("ValueError", WithBody(f, h.body))
            ELSE Ok(WithBody(f, h.body), NoData)

word_add_content_handler(f, req) ==
    IF f.kind # "docx" THEN OpenFail(f)
    ELSE LET h == IF IsSet(req.headings) /\ Val(req.headings) # <<>>
                  THEN AddHeadings(f.body, Val(req.headings))
                  ELSE [ok |-> TRUE, body |-> f.body]
         IN IF ~h.ok THEN Exc("ValueError", WithBody(f, h.body))
            ELSE Ok(WithBody(f, AddParagraphs(h.body, req.paragraphs)), NoData)

\* word_search_replace: the loop over doc.paragraphs and their runs
ReplaceInRun(r, search, replace) ==
    IF Contains(r.text, search)
    THEN [r EXCEPT !.text = PyReplace(r.text, search, replace)]
    ELSE r

ReplaceInBlock(b, search, replace) ==
    IF b.type = "p" /\ Contains(ParaText(b), search)
    THEN [b EXCEPT !.runs = [i \in 1..Len(b.runs) |->
                                ReplaceInRun(b.runs[i], search, replace)]]
    ELSE b

\* a count per paragraph whose text holds the search string
ParagraphHits(b, search) ==
    IF b.type = "p" /\ Contains(ParaText(b), search) THEN 1 ELSE 0

\* count += 1 once per run that is rewritten
RunHits(b, search) ==
    IF b.type = "p" /\ Contains(ParaText(b), search)
    THEN Cardinality({i \in 1..Len(b.runs) : Contains(b.runs[i].text, search)})
    ELSE 0

RECURSIVE SumSeq(_)
SumSeq(s) == IF s = <<>> THEN 0 ELSE Head(s) + SumSeq(Tail(s))

word_search_replace_handler(f, req) ==
    IF f.kind # "docx" THEN OpenFail(f)
    ELSE LET body == [i \in 1..Len(f.body) |->
                         ReplaceInBlock(f.body[i], req.search, req.replace)]
             count == SumSeq([i \in 1..Len(f.body) |-> RunHits(f.body[i], req.search)])
         IN Ok(WithBody(f, body), [count |-> count])

\* word_add_table and pptx_add_table: the grid and the cell writes
NumCols(headers, rows) ==
    IF headers # <<>> THEN Len(headers)
    ELSE IF rows # <<>> THEN Len(rows[1]) ELSE 1
NumRows(headers, rows) == (IF headers # <<>> THEN 1 ELSE 0) + Len(rows)
\* data rows written from row 0 whether or not there is a header row
NoRowOffset(headers) == 0
RowOffset(headers) == IF headers # <<>> THEN 1 ELSE 0

EmptyGrid(nrows, ncols) == [r \in 1..nrows |-> [c \in 1..ncols |-> <<>>]]

\* table.cell(r, c).text = v with 0-based r, c: IndexError outside the grid
CellWrite(g, r, c, v) ==
    IF g.ok /\ r < Len(g.rows) /\ c < g.ncols
    THEN [g EXCEPT !.rows[r + 1][c + 1] = v]
    ELSE [g EXCEPT !.ok = FALSE]

RECURSIVE WriteHeaders(_, _, _)
WriteHeaders(g, headers, j) ==
    IF j >= Len(headers) THEN g
    ELSE WriteHeaders(CellWrite(g, 0, j, headers[j + 1]), headers, j + 1)

\* for j, val in enumerate(row_data): if j < num_cols: table.cell(i + row_offset, j)
RECURSIVE WriteRow(_, _, _, _)
WriteRow(g, row_data, r, j) ==
    IF j >= Len(row_data) THEN g
    ELSE WriteRow(IF j < g.ncols THEN CellWrite(g, r, j, row_data[j + 1]) ELSE g,
                  row_data, r, j + 1)

RECURSIVE WriteRows(_, _, _, _)
WriteRows(g, rows, i, row_offset) ==
    IF i >= Len(rows) THEN g
    ELSE WriteRows(WriteRow(g, rows[i + 1], i + row_offset, 0), rows, i + 1, row_offset)

FillTable(headers, rows) ==
    LET ncols == NumCols(headers, rows)
        g0 == [ok |-> TRUE, ncols |-> ncols,
               rows |-> EmptyGrid(NumRows(headers, rows), ncols)]
        g1 == IF headers # <<>> THEN WriteHeaders(g0, headers, 0) ELSE g0
    IN WriteRows(g1, rows, 0, RowOffset(headers))

\* the table styles of the document's style part
KnownTableStyles == {"Table Grid"}
TruthyName(o) == IsSet(o) /\ Val(o) # ""

word_add_table_handler(f, req) ==
    IF f.kind # "docx" THEN OpenFail(f)
    ELSE LET ncols == NumCols(req.headers, req.rows)
             empty == Table(ncols, EmptyGrid(NumRows(req.headers, req.rows), ncols),
                            "default")
             g == FillTable(req.headers, req.rows)
             style == IF TruthyName(req.style) THEN Val(req.style) ELSE "default"
         IN IF TruthyName(req.style) /\ Val(req.style) \notin KnownTableStyles
            THEN Exc("KeyError", WithBody(f, Append(f.body, empty)))
            ELSE IF ~g.ok
            THEN Exc("IndexError", WithBody(f, Append(f.body, Table(ncols, g.rows, style))))
            ELSE Ok(WithBody(f, Append(f.body, Table(ncols, g.rows, style))),
                    [rows |-> NumRows(req.headers, req.rows), cols |-> ncols])

\* RGBColor.from_string(color.lstrip("#")): six hex digits, else ValueError
HexDigits == {"0", "1", "2", "3", "4", "5", "6", "7", "8", "9",
              "A", "B", "C", "D", "E", "F", "a", "b", "c", "d", "e", "f"}
RECURSIVE LStrip(_, _)
LStrip(t, ch) == IF t # <<>> /\ Head(t) = ch THEN LStrip(Tail(t), ch) ELSE t
ValidRGB(t) == Len(t) = 6 /\ \A i \in 1..6 : t[i] \in HexDigits

\* word_format_text: the fields of one run, in the order the handler sets them
\* (bold stands for the flag fields, which are all set the same way)
FormatRunBold(r, req) == IF IsSet(req.bold) THEN [r EXCEPT !.bold = req.bold] ELSE r
FormatRun(r, req) ==
    LET r1 == FormatRunBold(r, req)
    IN IF IsSet(req.color) THEN [r1 EXCEPT !.color = Some(LStrip(Val(req.color), "#"))]
       ELSE r1

\* the index test of word_format_text and word_delete_paragraph
WordIndexRejected(index, n) == index >= n

word_format_text_handler(f, req) ==
    IF f.kind # "docx" THEN OpenFail(f)
    ELSE LET pp == ParaPositions(f.body)
             n == Len(pp)
             idx == req.paragraph_index
         IN IF WordIndexRejected(idx, n) THEN Err400("out_of_range", f)
            ELSE IF ~PyInRange(idx, n) THEN Exc("IndexError", f)
            ELSE LET pos == pp[PyPos(idx, n)]
                     para == f.body[pos]
                     bad == IsSet(req.color) /\ ~ValidRGB(LStrip(Val(req.color), "#"))
                 IN IF bad /\ para.runs # <<>>
                    THEN Exc("ValueError",
                             [f EXCEPT !.body[pos].runs[1] = FormatRunBold(para.runs[1], req)])
                    ELSE Ok([f EXCEPT !.body[pos].runs =
                                [i \in 1..Len(para.runs) |-> FormatRun(para.runs[i], req)]],
                            NoData)

\* a deletion that takes paragraph_index as a position in the body
word_delete_block_handler(f, req) ==
    IF f.kind # "docx" THEN OpenFail(f)
    ELSE LET n == Len(ParaPositions(f.body))
             idx == req.paragraph_index
         IN IF WordIndexRejected(idx, n) THEN Err400("out_of_range", f)
            ELSE IF ~PyInRange(idx, n) THEN Exc("IndexError", f)
            ELSE Ok(WithBody(f, RemoveAt(f.body, PyPos(idx, n))), NoData)

word_delete_paragraph_handler(f, req) ==
    IF f.kind # "docx" THEN OpenFail(f)
    ELSE LET pp == ParaPositions(f.body)
             n == Len(pp)
             idx == req.paragraph_index
         IN IF WordIndexRejected(idx, n) THEN Err400("out_of_range", f)
            ELSE IF ~PyInRange(idx, n) THEN Exc("IndexError", f)
            ELSE Ok(WithBody(f, RemoveAt(f.body, pp[PyPos(idx, n)])), NoData)

\* word_add_hyperlink: an empty paragraph that gets a w:hyperlink child
word_add_hyperlink_handler(f, req) ==
    IF f.kind # "docx" THEN OpenFail(f)
    ELSE Ok(WithBody(f, Append(f.body, [Paragraph(Normal, <<>>) EXCEPT
                                           !.link = Some(req.text)])), NoData)

\* word_add_page_break: a paragraph whose one run holds the break and no text
word_add_page_break_handler(f, req) ==
    IF f.kind # "docx" THEN OpenFail(f)
    ELSE Ok(WithBody(f, Append(f.body, Paragraph(Normal, <<Run(<<>>)>>))), NoData)

\* word_header_footer: the first paragraph of the header / footer gets the text
word_header_footer_handler(f, req) ==
    IF f.kind # "docx" THEN OpenFail(f)
    ELSE Ok([f EXCEPT !.header = IF IsSet(req.header_text) THEN req.header_text ELSE @,
                      !.footer = IF IsSet(req.footer_text) THEN req.footer_text ELSE @],
            NoData)

(***************************************************************************)
(* Excel: the workbook.  A sheet holds a sparse grid of cells keyed by     *)
(* <<row, column>>, a sheet state, merged ranges and hidden rows.  A cell  *)
(* holds a value (None for a cell that only carries a style), and for a    *)
(* formula the value the container cached for it, if any.                  *)
(***************************************************************************)
NoCells == [p \in {} |-> None]
Cell(v) == [v |-> Some(v), styled |-> FALSE, cached |-> None]
BlankCell == [v |-> None, styled |-> FALSE, cached |-> None]
Sheet(name) ==
    [name |-> name, cells |-> NoCells, hidden |-> FALSE, merged |-> {},
     hiddenRows |-> {}]
Workbook(sheets) == [kind |-> "xlsx", sheets |-> sheets]

DefaultTitle == <<"S", "h", "e", "e", "t">>

SheetNames(wb) == [i \in 1..Len(wb.sheets) |-> wb.sheets[i].name]
\* name in wb.sheetnames: exact, case-sensitive list membership
HasSheet(wb, name) == \E i \in 1..Len(wb.sheets) : wb.sheets[i].name = name
SheetIndex(wb, name) == CHOOSE i \in 1..Len(wb.sheets) : wb.sheets[i].name = name

PutCell(cells, p, c) ==
    [q \in DOMAIN cells \cup {p} |-> IF q = p THEN c ELSE cells[q]]
\* ws.cell(row, column) / ws[ref]: the cell is created when it is not there
GetCell(cells, p) == IF p \in DOMAIN cells THEN cells[p] ELSE BlankCell

\* the cells of a merged range other than its top-left one are MergedCells
InRange(p, rg) == rg[1] <= p[1] /\ p[1] <= rg[3] /\ rg[2] <= p[2] /\ p[2] <= rg[4]
IsMergedCell(sh, p) == \E rg \in sh.merged : InRange(p, rg) /\ p # <<rg[1], rg[2]>>

\* str.lower() over the letters of the model's sheet names
LowerChar(ch) ==
    CASE ch = "D" -> "d" [] ch = "S" -> "s" [] ch = "O" -> "o" [] ch = "C" -> "c"
      [] OTHER -> ch
\* a lookup that keeps the case of the key
SameCase(t) == t
Lower(t) == [i \in 1..Len(t) |-> LowerChar(t[i])]
Digits == <<"1", "2", "3", "4", "5", "6", "7", "8", "9">>
IsDigit(ch) == \E d \in 1..9 : Digits[d] = ch
DigitValue(ch) == CHOOSE d \in 1..9 : Digits[d] = ch
SetMax(S) == IF S = {} THEN 0 ELSE CHOOSE m \in S : \A x \in S : x <= m

\* openpyxl's avoid_duplicate_name: a title that matches an existing one without
\* regard to case gets the next free number appended
AvoidDuplicateName(names, value) ==
    IF \E i \in 1..Len(names) : Lower(names[i]) = Lower(value)
    THEN LET counts == {DigitValue(names[i][Len(value) + 1]) :
                           i \in {k \in 1..Len(names) :
                                     /\ Len(names[k]) = Len(value) + 1
                                     /\ Lower(SubSeq(names[k], 1, Len(value))) = Lower(value)
                                     /\ IsDigit(names[k][Len(value) + 1])}}
         IN value \o <<Digits[SetMax(counts) + 1]>>
    ELSE value

\* the characters a sheet title may not hold
InvalidTitleChars == {"/", "\\", "*", "?", ":", "[", "]"}
ValidTitle(t) == \A i \in 1..Len(t) : t[i] \notin InvalidTitleChars

\* wb.create_sheet(title=name)
CreateSheet(wb, name) ==
    IF ~ValidTitle(name) THEN [ok |-> FALSE, wb |-> wb]
    ELSE [ok |-> TRUE,
          wb |-> [wb EXCEPT !.sheets =
                     Append(@, Sheet(AvoidDuplicateName(SheetNames(wb), name)))]]

\* ws.title = value on sheet k: None raises TypeError, an invalid character
\* ValueError; a new title is made unique among the workbook's titles. The
\* empty title holds no invalid character and is taken as it is.
SetTitle(wb, k, value) ==
    IF ~IsSet(value) \/ ~ValidTitle(Val(value)) THEN [ok |-> FALSE, wb |-> wb]
    ELSE IF wb.sheets[k].name = Val(value) THEN [ok |-> TRUE, wb |-> wb]
    ELSE [ok |-> TRUE,
          wb |-> [wb EXCEPT !.sheets[k].name =
                     AvoidDuplicateName(SheetNames(wb), Val(value))]]

\* ws.cell(row=r, column=c, value=v): a MergedCell's value is read-only
RECURSIVE WriteCells(_, _)
WriteCells(sh, ws) ==
    IF ws = <<>> THEN [ok |-> TRUE, sh |-> sh]
    ELSE LET w == Head(ws) IN
         IF IsMergedCell(sh, w.p) THEN [ok |-> FALSE, sh |-> sh]
         ELSE WriteCells([sh EXCEPT !.cells =
                             PutCell(@, w.p, [GetCell(sh.cells, w.p) EXCEPT
                                                 !.v = Some(w.v), !.cached = None])],
                         Tail(ws))

\* the writes of excel_create and excel_write_data, in the order the loops make
\* them: headers into row 1, data row r (from 1) into row r + 1
HeaderWrites(headers) == [c \in 1..Len(headers) |-> [p |-> <<1, c>>, v |-> headers[c]]]
DataRowStart == 2
RowWrites(row, r) == [c \in 1..Len(row) |-> [p |-> <<r, c>>, v |-> row[c]]]
DataWrites(rows) ==
    Concat([r \in 1..Len(rows) |-> RowWrites(rows[r], r - 1 + DataRowStart)])

\* wb.save: raises (after the file is opened for writing) when no sheet is
\* visible; a cell without value and style is not written; the cached value
\* of a formula is not written
HasVisibleSheet(wb) == \E i \in 1..Len(wb.sheets) : ~wb.sheets[i].hidden
SavedCells(cells) ==
    LET keep == {p \in DOMAIN cells : IsSet(cells[p].v) \/ cells[p].styled}
    IN [p \in keep |-> [cells[p] EXCEPT !.cached = None]]
SavedWorkbook(wb) ==
    [wb EXCEPT !.sheets = [i \in 1..Len(wb.sheets) |->
                              [wb.sheets[i] EXCEPT !.cells = SavedCells(@)]]]
XlSave(wb, data) ==
    IF HasVisibleSheet(wb) THEN Ok(wb, data)
    ELSE [code |-> 500, detail |-> "IndexError", mem |-> wb, save |-> TRUE,
          data |-> NoData]

\* excel_create
RECURSIVE CreateSheets(_, _, _)
CreateSheets(wb, defs, i) ==
    IF i > Len(defs) THEN [ok |-> TRUE, wb |-> wb]
    ELSE LET d == defs[i]
             made == IF i = 1 THEN SetTitle(wb, 1, Some(d.name))
                     ELSE CreateSheet(wb, d.name)
             k == Len(made.wb.sheets)
             w == IF made.ok
                  THEN WriteCells(made.wb.sheets[k], HeaderWrites(d.headers) \o DataWrites(d.rows))
                  ELSE [ok |-> FALSE, sh |-> made.wb.sheets[k]]
             wb1 == [made.wb EXCEPT !.sheets[k] =
                        [w.sh EXCEPT !.hidden = IF w.ok /\ d.hidden THEN TRUE ELSE @]]
         IN IF ~w.ok THEN [ok |-> FALSE, wb |-> wb1]
            ELSE CreateSheets(wb1, defs, i + 1)

excel_create_handler(f, req) ==
    LET r == CreateSheets(Workbook(<<Sheet(DefaultTitle)>>), req.sheets, 1)
    IN IF r.ok THEN XlSave(r.wb, NoData) ELSE Exc("ValueError", r.wb)

excel_write_data_handler(f, req) ==
    IF f.kind # "xlsx" THEN OpenFail(f)
    ELSE LET made == IF HasSheet(f, req.sheet_name) THEN [ok |-> TRUE, wb |-> f]
                     ELSE CreateSheet(f, req.sheet_name)
             k == IF HasSheet(f, req.sheet_name) THEN SheetIndex(f, req.sheet_name)
                  ELSE Len(made.wb.sheets)
         IN IF ~made.ok THEN Exc("ValueError", made.wb)
            ELSE LET w == WriteCells(made.wb.sheets[k],
                                     HeaderWrites(req.headers) \o DataWrites(req.rows))
                     wb1 == [made.wb EXCEPT !.sheets[k] =
                                [w.sh EXCEPT !.hidden =
                                    IF w.ok /\ req.hidden THEN TRUE ELSE @]]
                 IN IF ~w.ok THEN Exc("AttributeError", wb1)
                    ELSE XlSave(wb1, NoData)

\* excel_read: load_workbook(data_only=True) gives a formula cell the value the
\* container cached for it, None when there is none; str(cell) or "" per cell
IsFormula(v) == Len(v) > 1 /\ v[1] = "="
CellString(sh, p) ==
    IF p \notin DOMAIN sh.cells \/ IsMergedCell(sh, p) THEN <<>>
    ELSE LET c == sh.cells[p] IN
         IF ~IsSet(c.v) THEN <<>>
         ELSE IF IsFormula(Val(c.v)) THEN (IF IsSet(c.cached) THEN Val(c.cached) ELSE <<>>)
         ELSE Val(c.v)
\* the cells of the sheet: those of the grid and those of its merged ranges
Extent(sh) == DOMAIN sh.cells \cup {<<rg[3], rg[4]>> : rg \in sh.merged}
SheetRows(sh) ==
    IF Extent(sh) = {} THEN <<>>
    ELSE LET maxr == SetMax({p[1] : p \in Extent(sh)})
             maxc == SetMax({p[2] : p \in Extent(sh)})
         IN [r \in 1..maxr |-> [c \in 1..maxc |-> CellString(sh, <<r, c>>)]]
SheetsToRead(wb, name) == IF Truthy(name) THEN <<Val(name)>> ELSE SheetNames(wb)
ExcelReadData(wb, name) ==
    LET want == SelectSeq(SheetsToRead(wb, name), LAMBDA n : HasSheet(wb, n))
    IN [k \in 1..Len(want) |->
           LET sh == wb.sheets[SheetIndex(wb, want[k])]
           IN [name |-> want[k], rows |-> SheetRows(sh), hidden |-> sh.hidden]]

\* a read that reports a sheet it does not find, as the other handlers do
excel_read_reporting(f, req) ==
    IF f.kind # "xlsx" THEN OpenFail(f)
    ELSE IF Truthy(req.sheet_name) /\ ~HasSheet(f, Val(req.sheet_name))
    THEN Err400("not_found", f)
    ELSE OkRead(f, ExcelReadData(f, req.sheet_name))

excel_read_handler(f, req) ==
    IF f.kind # "xlsx" THEN OpenFail(f) ELSE OkRead(f, ExcelReadData(f, req.sheet_name))

\* a cell reference such as "B2": a column letter and a row digit
ColLetters == <<"A", "B", "C">>
IsColLetter(ch) == \E c \in 1..Len(ColLetters) : ColLetters[c] = ch
ColNumber(ch) == CHOOSE c \in 1..Len(ColLetters) : ColLetters[c] = ch
ValidRef(ref) == Len(ref) = 2 /\ IsColLetter(ref[1]) /\ IsDigit(ref[2])
RefCoord(ref) == <<DigitValue(ref[2]), ColNumber(ref[1])>>

\* the test every sheet-addressed handler but write_data and read makes
SheetMissing(wb, name) == ~HasSheet(wb, name)

excel_apply_formula_handler(f, req) ==
    IF f.kind # "xlsx" THEN OpenFail(f)
    ELSE IF SheetMissing(f, req.sheet_name) THEN Err400("not_found", f)
    ELSE IF ~ValidRef(req.cell) THEN Exc("ValueError", f)
    ELSE LET k == SheetIndex(f, req.sheet_name)
             w == WriteCells(f.sheets[k], <<[p |-> RefCoord(req.cell), v |-> req.formula]>>)
         IN IF ~w.ok THEN Exc("AttributeError", f)
            ELSE XlSave([f EXCEPT !.sheets[k] = w.sh], NoData)

\* openpyxl's colour values: six or eight hex digits
ValidARGB(t) == Len(t) \in {6, 8} /\ \A i \in 1..Len(t) : t[i] \in HexDigits

RangeCells(a, b) == {<<r, c>> : r \in a[1]..b[1], c \in a[2]..b[2]}

\* excel_format_range: ws[cell_range] creates the cells of the range; a single
\* cell is not iterable, so the loop raises TypeError when end_cell is not given
excel_format_range_handler(f, req) ==
    IF f.kind # "xlsx" THEN OpenFail(f)
    ELSE IF SheetMissing(f, req.sheet_name) THEN Err400("not_found", f)
    ELSE IF ~ValidRef(req.start_cell) \/ (Truthy(req.end_cell) /\ ~ValidRef(Val(req.end_cell)))
    THEN Exc("ValueError", f)
    ELSE LET k == SheetIndex(f, req.sheet_name)
             sh == f.sheets[k]
             a == RefCoord(req.start_cell)
             b == IF Truthy(req.end_cell) THEN RefCoord(Val(req.end_cell)) ELSE a
             cs == RangeCells(a, b)
             touched == [p \in DOMAIN sh.cells \cup cs |-> GetCell(sh.cells, p)]
             font == IsSet(req.bold) \/ Truthy(req.font_color)
             bad == Truthy(req.font_color) /\ ~ValidARGB(LStrip(Val(req.font_color), "#"))
             styled == [p \in DOMAIN touched |->
                          IF p \in cs /\ font THEN [touched[p] EXCEPT !.styled = TRUE]
                          ELSE touched[p]]
             rows == IF IsSet(req.hidden) /\ Val(req.hidden)
                     THEN sh.hiddenRows \cup (a[1]..b[1]) ELSE sh.hiddenRows
         IN IF ~Truthy(req.end_cell)
            THEN Exc("TypeError", [f EXCEPT !.sheets[k].cells = touched])
            ELSE IF bad /\ cs # {}
            THEN Exc("ValueError", [f EXCEPT !.sheets[k].cells = touched])
            ELSE XlSave([f EXCEPT !.sheets[k].cells = styled,
                                   !.sheets[k].hiddenRows = rows], NoData)

\* excel_merge_cells: a reversed range is refused by CellRange; the cells of the
\* range other than the top-left one become MergedCells and lose their values
excel_merge_cells_handler(f, req) ==
    IF f.kind # "xlsx" THEN OpenFail(f)
    ELSE IF SheetMissing(f, req.sheet_name) THEN Err400("not_found", f)
    ELSE IF ~ValidRef(req.start_cell) \/ ~ValidRef(req.end_cell) THEN Exc("ValueError", f)
    ELSE LET k == SheetIndex(f, req.sheet_name)
             sh == f.sheets[k]
             a == RefCoord(req.start_cell)
             b == RefCoord(req.end_cell)
             rg == <<a[1], a[2], b[1], b[2]>>
             keep == {p \in DOMAIN sh.cells : ~(InRange(p, rg) /\ p # a)}
         IN IF a[1] > b[1] \/ a[2] > b[2] THEN Exc("ValueError", f)
            ELSE XlSave([f EXCEPT !.sheets[k].merged = @ \cup {rg},
                                   !.sheets[k].cells = [p \in keep |-> sh.cells[p]]],
                        NoData)

excel_delete_sheet_handler(f, req) ==
    IF f.kind # "xlsx" THEN OpenFail(f)
    ELSE IF SheetMissing(f, req.sheet_name) THEN Err400("not_found", f)
    ELSE XlSave([f EXCEPT !.sheets = RemoveAt(@, SheetIndex(f, req.sheet_name))], NoData)

excel_rename_sheet_handler(f, req) ==
    IF f.kind # "xlsx" THEN OpenFail(f)
    ELSE IF SheetMissing(f, req.sheet_name) THEN Err400("not_found", f)
    ELSE LET r == SetTitle(f, SheetIndex(f, req.sheet_name), req.new_name)
         IN IF ~r.ok THEN Exc("TypeError", f) ELSE XlSave(r.wb, NoData)

\* ws.insert_rows(idx, amount) / ws.insert_cols(idx, amount): the cells at or
\* after idx move by amount; merged ranges and row dimensions stay
ShiftCells(cells, idx, amount, axis) ==
    LET to(p) == IF p[axis] >= idx
                 THEN (IF axis = 1 THEN <<p[1] + amount, p[2]>> ELSE <<p[1], p[2] + amount>>)
                 ELSE p
        from(q) == CHOOSE p \in DOMAIN cells : to(p) = q
    IN [q \in {to(p) : p \in DOMAIN cells} |-> cells[from(q)]]

\* an insert_rows that creates the sheet it does not find, as write_data does
excel_insert_rows_creating(f, req) ==
    IF f.kind # "xlsx" THEN OpenFail(f)
    ELSE LET made == IF HasSheet(f, req.sheet_name) THEN [ok |-> TRUE, wb |-> f]
                     ELSE CreateSheet(f, req.sheet_name)
             k == IF HasSheet(f, req.sheet_name) THEN SheetIndex(f, req.sheet_name)
                  ELSE Len(made.wb.sheets)
         IN IF ~made.ok THEN Exc("ValueError", made.wb)
            ELSE XlSave([made.wb EXCEPT !.sheets[k].cells =
                            ShiftCells(@, req.index, req.count, 1)], NoData)

excel_insert_rows_handler(f, req) ==
    IF f.kind # "xlsx" THEN OpenFail(f)
    ELSE IF SheetMissing(f, req.sheet_name) THEN Err400("not_found", f)
    ELSE LET k == SheetIndex(f, req.sheet_name)
         IN XlSave([f EXCEPT !.sheets[k].cells = ShiftCells(@, req.index, req.count, 1)],
                   NoData)

excel_insert_cols_handler(f, req) ==
    IF f.kind # "xlsx" THEN OpenFail(f)
    ELSE IF SheetMissing(f, req.sheet_name) THEN Err400("not_found", f)
    ELSE LET k == SheetIndex(f, req.sheet_name)
         IN XlSave([f EXCEPT !.sheets[k].cells = ShiftCells(@, req.index, req.count, 2)],
                   NoData)

(***************************************************************************)
(* PowerPoint: the presentation.  sldIdLst is the ordered slide list, each *)
(* entry carrying the relationship id of its slide; rels is the slide      *)
(* relationships of the presentation part, from relationship id to slide.  *)
(* A slide holds its layout, its shape tree in order and its notes.        *)
(***************************************************************************)
\* the layouts of the default template and, for each, the idx of the
\* placeholders a new slide clones from it
TitleAndContent == "Title and Content"
LayoutPlaceholders(layout) ==
    CASE layout = "Title and Content" -> <<0, 1>>
      [] layout = "Title Only" -> <<0>>
      [] OTHER -> <<>>

Placeholder(idx) ==
    [ph |-> Some(idx), tf |-> TRUE, text |-> <<>>, geom |-> "none", ncols |-> 0,
     rows |-> <<>>, fill |-> None]
AutoShape(geom) ==
    [ph |-> None, tf |-> TRUE, text |-> <<>>, geom |-> geom, ncols |-> 0,
     rows |-> <<>>, fill |-> None]
TableShape(ncols, rows) ==
    [ph |-> None, tf |-> FALSE, text |-> <<>>, geom |-> "none", ncols |-> ncols,
     rows |-> rows, fill |-> None]
Slide(layout) ==
    [layout |-> layout,
     shapes |-> [i \in 1..Len(LayoutPlaceholders(layout)) |->
                    Placeholder(LayoutPlaceholders(layout)[i])],
     notes |-> None]
NoRels == [r \in {} |-> None]
Pptx(sldIdLst, rels) == [kind |-> "pptx", sldIdLst |-> sldIdLst, rels |-> rels]

\* len(prs.slides), prs.slides[i]
NumSlides(prs) == Len(prs.sldIdLst)
SlideAt(prs, i) == prs.rels[prs.sldIdLst[i + 1]]
PutSlide(prs, i, slide) == [prs EXCEPT !.rels[prs.sldIdLst[i + 1]] = slide]

\* the next relationship id: the first number not in use
NextRId(rels) ==
    CHOOSE n \in 1..(Cardinality(DOMAIN rels) + 1) :
        n \notin DOMAIN rels /\ \A m \in 1..(n - 1) : m \in DOMAIN rels

\* prs.slides.add_slide(layout): the new slide is the last one
AddSlide(prs, layout) ==
    LET rId == NextRId(prs.rels)
    IN Pptx(Append(prs.sldIdLst, rId),
            [r \in DOMAIN prs.rels \cup {rId} |->
                IF r = rId THEN Slide(layout) ELSE prs.rels[r]])

\* a deletion that leaves the relationship in the table
KeepRel(prs, rId) == prs

\* prs.part.drop_rel(rId): the relationship goes unless the part's XML refers
\* to it more than once
DropRel(prs, rId) ==
    IF Cardinality({i \in 1..Len(prs.sldIdLst) : prs.sldIdLst[i] = rId}) < 2
    THEN [prs EXCEPT !.rels = [r \in DOMAIN prs.rels \ {rId} |-> prs.rels[r]]]
    ELSE prs

\* slide.placeholders, slide.shapes.title, slide.placeholders[idx]: positions
\* in the shape tree, 0 when there is none
PlaceholderPositions(slide) == {k \in 1..Len(slide.shapes) : IsSet(slide.shapes[k].ph)}
FirstWithIdx(slide, idx) ==
    LET ks == {k \in PlaceholderPositions(slide) : slide.shapes[k].ph = Some(idx)}
    IN IF ks = {} THEN 0 ELSE CHOOSE k \in ks : \A j \in ks : k <= j
TitlePosition(slide) == FirstWithIdx(slide, 0)

SetShapeText(slide, k, text) == [slide EXCEPT !.shapes[k].text = text]
\* an assignment guarded by slide.has_notes_slide: no notes slide is created
SetExistingNotes(slide, text) ==
    IF IsSet(slide.notes) THEN [slide EXCEPT !.notes = Some(text)] ELSE slide
\* slide.notes_slide.notes_text_frame.text = text: the notes slide is created
\* when the slide has none
SetNotes(slide, text) == [slide EXCEPT !.notes = Some(text)]

\* the three assignments of pptx_create and pptx_add_slide on the new slide
FillSlide(slide, d) ==
    LET s1 == IF d.title # <<>> THEN SetShapeText(slide, TitlePosition(slide), d.title)
              ELSE slide
        s2 == IF d.content # <<>> /\ Cardinality(PlaceholderPositions(s1)) > 1
              THEN SetShapeText(s1, FirstWithIdx(s1, 1), d.content)
              ELSE s1
    IN IF d.notes # <<>> THEN SetNotes(s2, d.notes) ELSE s2

AddFilledSlide(prs, d) ==
    LET p1 == AddSlide(prs, TitleAndContent)
        i == NumSlides(p1) - 1
    IN PutSlide(p1, i, FillSlide(SlideAt(p1, i), d))

RECURSIVE AddFilledSlides(_, _)
AddFilledSlides(prs, ds) ==
    IF ds = <<>> THEN prs ELSE AddFilledSlides(AddFilledSlide(prs, Head(ds)), Tail(ds))

pptx_create_handler(f, req) == Ok(AddFilledSlides(Pptx(<<>>, NoRels), req.slides), NoData)

pptx_add_slide_handler(f, req) ==
    IF f.kind # "pptx" THEN OpenFail(f) ELSE Ok(AddFilledSlide(f, req), NoData)

\* pptx_read: the texts of the shapes that have a text frame, joined by "\n"
SlideText(slide) ==
    LET ks == SelectSeq([k \in 1..Len(slide.shapes) |-> k], LAMBDA k : slide.shapes[k].tf)
    IN Join([j \in 1..Len(ks) |-> slide.shapes[ks[j]].text], <<"\n">>)
SlideNotes(slide) == IF IsSet(slide.notes) THEN Val(slide.notes) ELSE <<>>
PptxReadData(prs) ==
    [i \in 1..NumSlides(prs) |->
        [slide_number |-> i, text |-> SlideText(SlideAt(prs, i - 1)),
         notes |-> SlideNotes(SlideAt(prs, i - 1))]]

pptx_read_handler(f, req) ==
    IF f.kind # "pptx" THEN OpenFail(f) ELSE OkRead(f, PptxReadData(f))

\* the index test of every slide-addressed handler
SlideIndexRejected(index, n) == index < 0 \/ index >= n

\* pptx_add_table: the graphic frame cannot be built with no row or no column
pptx_add_table_handler(f, req) ==
    IF f.kind # "pptx" THEN OpenFail(f)
    ELSE IF SlideIndexRejected(req.slide_index, NumSlides(f)) THEN Err400("out_of_range", f)
    ELSE LET slide == SlideAt(f, req.slide_index)
             ncols == NumCols(req.headers, req.rows)
             nrows == NumRows(req.headers, req.rows)
             g == FillTable(req.headers, req.rows)
         IN IF nrows = 0 \/ ncols = 0 THEN Exc("ZeroDivisionError", f)
            ELSE IF ~g.ok
            THEN Exc("IndexError",
                     PutSlide(f, req.slide_index,
                              [slide EXCEPT !.shapes = Append(@, TableShape(ncols, g.rows))]))
            ELSE Ok(PutSlide(f, req.slide_index,
                             [slide EXCEPT !.shapes = Append(@, TableShape(ncols, g.rows))]),
                    NoData)

\* pptx_update_slide: placeholders[1] is the placeholder of idx 1, KeyError
\* when the slide has none
pptx_update_slide_handler(f, req) ==
    IF f.kind # "pptx" THEN OpenFail(f)
    ELSE IF SlideIndexRejected(req.slide_index, NumSlides(f)) THEN Err400("out_of_range", f)
    ELSE LET s0 == SlideAt(f, req.slide_index)
             s1 == IF IsSet(req.title) /\ TitlePosition(s0) # 0
                   THEN SetShapeText(s0, TitlePosition(s0), Val(req.title))
                   ELSE s0
             content == IsSet(req.content) /\ Cardinality(PlaceholderPositions(s1)) > 1
             s2 == IF content /\ FirstWithIdx(s1, 1) # 0
                   THEN SetShapeText(s1, FirstWithIdx(s1, 1), Val(req.content))
                   ELSE s1
             s3 == IF IsSet(req.notes) THEN SetNotes(s2, Val(req.notes)) ELSE s2
         IN IF content /\ FirstWithIdx(s1, 1) = 0
            THEN Exc("KeyError", PutSlide(f, req.slide_index, s1))
            ELSE Ok(PutSlide(f, req.slide_index, s3), NoData)

\* pptx_delete_slide: drop the relationship, then the entry of the slide list
pptx_delete_slide_handler(f, req) ==
    IF f.kind # "pptx" THEN OpenFail(f)
    ELSE IF SlideIndexRejected(req.slide_index, NumSlides(f)) THEN Err400("out_of_range", f)
    ELSE LET rId == f.sldIdLst[req.slide_index + 1]
             p1 == DropRel(f, rId)
         IN Ok([p1 EXCEPT !.sldIdLst = RemoveAt(@, req.slide_index + 1)], NoData)

\* pptx_duplicate_slide: a new slide of the source's layout, with the
\* placeholders add_slide clones from the layout, then a copy of every shape of
\* the source appended to its shape tree
DuplicateShapes(new_slide, source) ==
    [new_slide EXCEPT !.shapes = @ \o source.shapes]

pptx_duplicate_slide_handler(f, req) ==
    IF f.kind # "pptx" THEN OpenFail(f)
    ELSE IF SlideIndexRejected(req.slide_index, NumSlides(f)) THEN Err400("out_of_range", f)
    ELSE LET source == SlideAt(f, req.slide_index)
             p1 == AddSlide(f, source.layout)
             i == NumSlides(p1) - 1
         IN Ok(PutSlide(p1, i, DuplicateShapes(SlideAt(p1, i), source)), NoData)

pptx_set_notes_handler(f, req) ==
    IF f.kind # "pptx" THEN OpenFail(f)
    ELSE IF SlideIndexRejected(req.slide_index, NumSlides(f)) THEN Err400("out_of_range", f)
    ELSE Ok(PutSlide(f, req.slide_index, SetNotes(SlideAt(f, req.slide_index), req.notes)),
            NoData)

\* pptx_get_slide_info: per shape its text when it has a text frame and its
\* table size when it holds a table
ShapeInfo(sh) ==
    [text |-> IF sh.tf THEN Some(sh.text) ELSE None,
     table |-> IF sh.ncols > 0 THEN Some(<<Len(sh.rows), sh.ncols>>) ELSE None]
pptx_get_slide_info_handler(f, req) ==
    IF f.kind # "pptx" THEN OpenFail(f)
    ELSE IF SlideIndexRejected(req.slide_index, NumSlides(f)) THEN Err400("out_of_range", f)
    ELSE LET slide == SlideAt(f, req.slide_index)
         IN OkRead(f, [slide_index |-> req.slide_index,
                       shapes |-> [k \in 1..Len(slide.shapes) |-> ShapeInfo(slide.shapes[k])],
                       notes |-> SlideNotes(slide),
                       layout_name |-> slide.layout])

\* pptx_add_shape: shape_map.get(req.shape_type.lower(), MSO_SHAPE.RECTANGLE)
ShapeMap(name) ==
    CASE name = <<"r", "e", "c", "t", "a", "n", "g", "l", "e">> -> "RECTANGLE"
      [] name = <<"o", "v", "a", "l">> -> "OVAL"
      [] name = <<"t", "r", "i", "a", "n", "g", "l", "e">> -> "ISOSCELES_TRIANGLE"
      [] name = <<"d", "i", "a", "m", "o", "n", "d">> -> "DIAMOND"
      [] name = <<"p", "e", "n", "t", "a", "g", "o", "n">> -> "PENTAGON"
      [] name = <<"h", "e", "x", "a", "g", "o", "n">> -> "HEXAGON"
      [] name = <<"c", "l", "o", "u", "d">> -> "CLOUD"
      [] name = <<"s", "t", "a", "r">> -> "STAR_5_POINT"
      [] name = <<"r", "o", "u", "n", "d", "e", "d", "_", "r", "e", "c", "t", "a", "n", "g",
                  "l", "e">> -> "ROUNDED_RECTANGLE"
      [] name = <<"a", "r", "r", "o", "w", "_", "r", "i", "g", "h", "t">> -> "RIGHT_ARROW"
      [] name = <<"a", "r", "r", "o", "w", "_", "l", "e", "f", "t">> -> "LEFT_ARROW"
      [] OTHER -> "RECTANGLE"

pptx_add_shape_handler(f, req) ==
    IF f.kind # "pptx" THEN OpenFail(f)
    ELSE IF SlideIndexRejected(req.slide_index, NumSlides(f)) THEN Err400("out_of_range", f)
    ELSE LET slide == SlideAt(f, req.slide_index)
             sh0 == AutoShape(ShapeMap(Lower(req.shape_type)))
             sh1 == IF req.text # <<>> THEN [sh0 EXCEPT !.text = req.text] ELSE sh0
             hex == IF Truthy(req.fill_color) THEN LStrip(Val(req.fill_color), "#") ELSE <<>>
             sh2 == IF Truthy(req.fill_color) THEN [sh1 EXCEPT !.fill = Some(hex)] ELSE sh1
         IN IF Truthy(req.fill_color) /\ ~ValidRGB(hex)
            THEN Exc("ValueError",
                     PutSlide(f, req.slide_index, [slide EXCEPT !.shapes = Append(@, sh1)]))
            ELSE Ok(PutSlide(f, req.slide_index, [slide EXCEPT !.shapes = Append(@, sh2)]),
                    NoData)

\* health
health_handler(f) == OkRead(f, [status |-> "ok"])

(***************************************************************************)
(* The requests the model draws.                                           *)
(***************************************************************************)
Tfoo == <<"f", "o", "o">>
Tfo == <<"f", "o">>
To == <<"o">>
Tx == <<"x">>
TA == <<"A">>
TB == <<"B">>

Heading1 == [text |-> Some(To), level |-> None]
Heading2 == [text |-> None, level |-> Some(2)]
HeadingBad == [text |-> Some(To), level |-> Some(10)]
GoodColor == <<"#", "F", "F", "0", "0", "0", "0">>
BadColor == <<"r", "e", "d">>
IndexRange == (0 - MaxBlocks - 2)..(MaxBlocks + 1)

CreateWordRequests ==
    {[title |-> None, paragraphs |-> <<>>],
     [title |-> Some(To), paragraphs |-> <<Tfoo, <<>>>>]}
AddWordContentRequests ==
    {[paragraphs |-> <<To>>, headings |-> None],
     [paragraphs |-> <<Tfoo>>, headings |-> Some(<<Heading1>>)],
     [paragraphs |-> <<>>, headings |-> Some(<<Heading2, Heading1>>)],
     [paragraphs |-> <<To>>, headings |-> Some(<<>>)],
     [paragraphs |-> <<>>, headings |-> Some(<<Heading1, HeadingBad>>)],
     [paragraphs |-> <<>>, headings |-> Some(<<Heading1>>)]}
SearchReplaceWordRequests ==
    {[search |-> Tfoo, replace |-> Tx],
     [search |-> To, replace |-> <<>>],
     [search |-> <<>>, replace |-> <<>>]}
ReadWordRequests == {[read |-> "all"]}
AddWordTableRequests ==
    {[headers |-> <<TA, TB>>, rows |-> << <<To, Tfo>> >>, style |-> None],
     [headers |-> <<TA, TB>>, rows |-> << <<To>>, <<To, Tfo, TA>> >>, style |-> None],
     [headers |-> <<>>, rows |-> << <<To, Tfo>>, <<TA>> >>, style |-> Some("Table Grid")],
     [headers |-> <<>>, rows |-> <<>>, style |-> Some("")],
     [headers |-> <<>>, rows |-> << <<>>, <<TA>> >>, style |-> None],
     [headers |-> <<TA, TB>>, rows |-> <<>>, style |-> Some("No Such Style")]}
FormatChoices ==
    {[bold |-> Some(TRUE), color |-> Some(GoodColor)],
     [bold |-> Some(TRUE), color |-> Some(BadColor)],
     [bold |-> None, color |-> None]}
FormatWordTextRequests ==
    {[paragraph_index |-> i, bold |-> c.bold, color |-> c.color] :
        i \in IndexRange, c \in FormatChoices}
DeleteWordParagraphRequests == [paragraph_index : IndexRange]
AddWordHyperlinkRequests == {[text |-> Tfoo, url |-> "u"]}
WordPageBreakRequests == {[page_break |-> "new"]}
AddWordHeaderFooterRequests ==
    {[header_text |-> Some(To), footer_text |-> Some(To)],
     [header_text |-> None, footer_text |-> None]}

ND == <<"D">>
Nd == <<"d">>
TX == <<"X">>
T5 == <<"5">>
TF == <<"=", "A", "2">>
RA1 == <<"A", "1">>
RA2 == <<"A", "2">>
RB2 == <<"B", "2">>
RBad == <<"A", "A">>

CreateExcelRequests ==
    {[sheets |-> <<>>],
     [sheets |-> <<[name |-> ND, headers |-> <<TX>>, rows |-> << <<T5>> >>, hidden |-> FALSE]>>],
     [sheets |-> <<[name |-> ND, headers |-> <<>>, rows |-> <<>>, hidden |-> TRUE]>>],
     [sheets |-> <<[name |-> ND, headers |-> <<TX>>, rows |-> <<>>, hidden |-> FALSE],
                   [name |-> Nd, headers |-> <<>>, rows |-> << <<T5>> >>, hidden |-> TRUE]>>]}
WriteExcelDataRequests ==
    {[sheet_name |-> ND, headers |-> <<TX>>, rows |-> << <<T5>> >>, hidden |-> FALSE],
     [sheet_name |-> Nd, headers |-> <<>>, rows |-> << <<TF>> >>, hidden |-> FALSE],
     [sheet_name |-> ND, headers |-> <<>>, rows |-> <<>>, hidden |-> TRUE]}
ReadExcelRequests == [sheet_name : {None, Some(<<>>), Some(ND), Some(Nd)}]
SheetNameInputs == {ND, Nd}
ApplyFormulaRequests ==
    {[sheet_name |-> n, cell |-> c.cell, formula |-> c.formula] :
        n \in SheetNameInputs,
        c \in {[cell |-> RB2, formula |-> TF], [cell |-> RBad, formula |-> TF]}}
FormatRangeRequests ==
    {[sheet_name |-> n, start_cell |-> c.s, end_cell |-> c.e, bold |-> c.bold,
      font_color |-> c.color, hidden |-> c.hidden] :
        n \in SheetNameInputs,
        c \in {[s |-> RA1, e |-> Some(RA2), bold |-> Some(TRUE), color |-> None,
                hidden |-> Some(TRUE)],
               [s |-> RA1, e |-> Some(RA2), bold |-> Some(TRUE), color |-> Some(BadColor),
                hidden |-> None],
               [s |-> RA1, e |-> None, bold |-> Some(TRUE), color |-> Some(GoodColor),
                hidden |-> None]}}
MergeCellsRequests ==
    {[sheet_name |-> n, start_cell |-> c.s, end_cell |-> c.e] :
        n \in SheetNameInputs,
        c \in {[s |-> RA1, e |-> RA2], [s |-> RB2, e |-> RA1]}}
DeleteSheetRequests == [sheet_name : SheetNameInputs, new_name : {None}]
RenameSheetRequests ==
    [sheet_name : SheetNameInputs, new_name : {None, Some(<<>>), Some(Nd), Some(<<"?">>)}]
InsertRowsColsRequests == [sheet_name : SheetNameInputs, index : {2}, count : {1}]

SlideData(title, content, notes) == [title |-> title, content |-> content, notes |-> notes]
SlideIndexRange == (0 - 1)..MaxSlides
\* the slides the editing requests address: none before the first, the first, none
\* after the last
EditIndexRange == {0 - 1, 0, MaxSlides}
BadTypeName == <<"b", "l", "o", "b">>
OvalName == <<"O", "v", "a", "l">>
CloudName == <<"c", "l", "o", "u", "d">>

CreatePptxRequests ==
    {[slides |-> <<>>],
     [slides |-> <<SlideData(To, Tx, <<>>), SlideData(<<>>, <<>>, To)>>]}
AddSlideRequests == {SlideData(To, <<>>, <<>>)}
ReadPptxRequests == {[read |-> "all"]}
AddPptxTableRequests ==
    {[slide_index |-> i, headers |-> c.headers, rows |-> c.rows] :
        i \in EditIndexRange,
        c \in {[headers |-> <<TA>>, rows |-> << <<To, Tx>> >>],
               [headers |-> <<>>, rows |-> <<>>]}}
UpdateSlideContentRequests ==
    {[slide_index |-> i, title |-> c.title, content |-> c.content, notes |-> c.notes] :
        i \in EditIndexRange,
        c \in {[title |-> Some(Tx), content |-> None, notes |-> None],
               [title |-> None, content |-> Some(<<>>), notes |-> Some(<<>>)],
               [title |-> None, content |-> None, notes |-> Some(To)]}}
DeleteSlideRequests == [slide_index : SlideIndexRange]
DuplicateSlideRequests == [slide_index : SlideIndexRange]
SetSlideNotesRequests == [slide_index : EditIndexRange, notes : {<<>>, To}]
GetSlideInfoRequests == [slide_index : SlideIndexRange]
AddPptxShapeRequests ==
    {[slide_index |-> i, shape_type |-> c.shape_type, text |-> c.text,
      fill_color |-> c.fill_color] :
        i \in EditIndexRange,
        c \in {[shape_type |-> OvalName, text |-> To, fill_color |-> None],
               [shape_type |-> BadTypeName, text |-> Tx, fill_color |-> Some(BadColor)],
               [shape_type |-> CloudName, text |-> <<>>, fill_color |-> Some(GoodColor)],
               [shape_type |-> BadTypeName, text |-> <<>>, fill_color |-> None]}}

(***************************************************************************)
(* The files the service finds on disk when it starts.                     *)
(***************************************************************************)
SplitRunsDocx ==
    Docx(<<Paragraph(Normal, <<Run(Tfo), Run(To)>>), Paragraph(Normal, <<Run(Tfoo)>>),
           Paragraph(<<"Heading", 1>>, <<Run(To)>>)>>)

\* a workbook last saved by a spreadsheet program: B1 holds a formula and the
\* value computed for it
CachedXlsx ==
    Workbook(<<[Sheet(ND) EXCEPT !.cells =
                   PutCell(PutCell(NoCells, <<1, 1>>, Cell(T5)),
                           <<1, 2>>, [Cell(TF) EXCEPT !.cached = Some(T5)])]>>)

\* a deck made by a presentation program: a blank slide holding one text box
\* and a slide of the "Title Only" layout
ImportedDeck ==
    Pptx(<<1, 2>>,
         [r \in {1, 2} |->
             IF r = 1
             THEN [Slide("Blank") EXCEPT !.shapes = <<[AutoShape("RECTANGLE") EXCEPT
                                                          !.text = Tfoo]>>]
             ELSE SetShapeText(Slide("Title Only"), 1, To)])

InitFiles == {Absent, SplitRunsDocx, CachedXlsx, ImportedDeck}

(***************************************************************************)
(* Serving one request: the handler runs from the open to the response.    *)
(***************************************************************************)
\* The bounds cap growth: a request is served when the tree it leaves is within
\* the bounds or no larger than the one it found.
Bounded(pre, f) ==
    /\ f.kind = "docx" =>
          \/ Len(f.body) <= MaxBlocks
          \/ pre.kind = "docx" /\ Len(f.body) <= Len(pre.body)
    /\ f.kind = "xlsx" =>
          /\ Len(f.sheets) <= MaxSheets
          /\ \A i \in 1..Len(f.sheets) :
                \A p \in DOMAIN f.sheets[i].cells : p[1] <= MaxRow /\ p[2] <= MaxCol
          /\ SumSeq([i \in 1..Len(f.sheets) |-> Cardinality(DOMAIN f.sheets[i].cells)])
                <= MaxCells
    /\ f.kind = "pptx" =>
          /\ \/ NumSlides(f) <= MaxSlides
             \/ pre.kind = "pptx" /\ NumSlides(f) <= NumSlides(pre)
          /\ SumSeq([i \in 1..NumSlides(f) |-> Len(SlideAt(f, i - 1).shapes)]) <= MaxShapes
          /\ SumSeq([i \in 1..NumSlides(f) |->
                        Len(SlideAt(f, i - 1).shapes)
                            - Cardinality(PlaceholderPositions(SlideAt(f, i - 1)))]) <= MaxDrawn
          /\ Cardinality({r \in DOMAIN f.rels : IsSet(f.rels[r].notes)}) <= MaxNotes

\* doc.save / wb.save / prs.save writes the in-memory tree over the file; a save
\* that raises leaves a truncated container behind
Persist(r, f) ==
    IF ~r.save THEN f
    ELSE IF r.code # 200 THEN Corrupt
    ELSE IF r.mem.kind = "xlsx" THEN SavedWorkbook(r.mem)
    ELSE r.mem

NoRequest ==
    [op |-> "none", req |-> NoData, pre |-> Absent, code |-> 0, detail |-> "none",
     mem |-> Absent, saved |-> FALSE, data |-> NoData]
Idle == [loop |-> "unused"]

\* The handler's response: the service is idle when the request arrives.
Serve(op, req, r) ==
    /\ last = NoRequest
    /\ Bounded(file, r.mem)
    /\ file' = Persist(r, file)
    /\ last' = [op |-> op, req |-> req, pre |-> file, code |-> r.code,
                detail |-> r.detail, mem |-> r.mem, saved |-> r.save, data |-> r.data]
    /\ UNCHANGED conc

\* A handler reads no field of the request but file_path before it opens the
\* file: when the open fails, one request stands for all of them.
For(kind, requests) ==
    IF file.kind = kind THEN requests ELSE {CHOOSE r \in requests : TRUE}

word_create ==
    \E req \in CreateWordRequests : Serve("word_create", req, word_create_handler(file, req))
word_add_content ==
    \E req \in For("docx", AddWordContentRequests) :
        Serve("word_add_content", req, word_add_content_handler(file, req))
word_search_replace ==
    \E req \in For("docx", SearchReplaceWordRequests) :
        Serve("word_search_replace", req, word_search_replace_handler(file, req))
word_read ==
    \E req \in ReadWordRequests : Serve("word_read", req, word_read_handler(file, req))
word_add_table ==
    \E req \in For("docx", AddWordTableRequests) :
        Serve("word_add_table", req, word_add_table_handler(file, req))
word_format_text ==
    \E req \in For("docx", FormatWordTextRequests) :
        Serve("word_format_text", req, word_format_text_handler(file, req))
word_delete_paragraph ==
    \E req \in For("docx", DeleteWordParagraphRequests) :
        Serve("word_delete_paragraph", req, word_delete_paragraph_handler(file, req))
word_add_hyperlink ==
    \E req \in For("docx", AddWordHyperlinkRequests) :
        Serve("word_add_hyperlink", req, word_add_hyperlink_handler(file, req))
word_add_page_break ==
    \E req \in For("docx", WordPageBreakRequests) :
        Serve("word_add_page_break", req, word_add_page_break_handler(file, req))
word_header_footer ==
    \E req \in For("docx", AddWordHeaderFooterRequests) :
        Serve("word_header_footer", req, word_header_footer_handler(file, req))

excel_create ==
    \E req \in CreateExcelRequests :
        Serve("excel_create", req, excel_create_handler(file, req))
excel_write_data ==
    \E req \in For("xlsx", WriteExcelDataRequests) :
        Serve("excel_write_data", req, excel_write_data_handler(file, req))
excel_read ==
    \E req \in For("xlsx", ReadExcelRequests) :
        Serve("excel_read", req, excel_read_handler(file, req))
excel_apply_formula ==
    \E req \in For("xlsx", ApplyFormulaRequests) :
        Serve("excel_apply_formula", req, excel_apply_formula_handler(file, req))
excel_format_range ==
    \E req \in For("xlsx", FormatRangeRequests) :
        Serve("excel_format_range", req, excel_format_range_handler(file, req))
excel_merge_cells ==
    \E req \in For("xlsx", MergeCellsRequests) :
        Serve("excel_merge_cells", req, excel_merge_cells_handler(file, req))
excel_delete_sheet ==
    \E req \in For("xlsx", DeleteSheetRequests) :
        Serve("excel_delete_sheet", req, excel_delete_sheet_handler(file, req))
\* The handler passes new_name to the title setter unchecked. An empty title
\* has no invalid character: a setter that only screens characters takes it, a
\* setter that also requires a character raises ValueError. Both outcomes are
\* kept, the handler itself has no test of its own.
excel_rename_sheet ==
    \E req \in For("xlsx", RenameSheetRequests) :
        \E r \in {excel_rename_sheet_handler(file, req)}
                    \cup (IF /\ file.kind = "xlsx"
                             /\ ~SheetMissing(file, req.sheet_name)
                             /\ req.new_name = Some(<<>>)
                          THEN {Exc("ValueError", file)} ELSE {}) :
            Serve("excel_rename_sheet", req, r)
excel_insert_rows ==
    \E req \in For("xlsx", InsertRowsColsRequests) :
        Serve("excel_insert_rows", req, excel_insert_rows_handler(file, req))
excel_insert_cols ==
    \E req \in For("xlsx", InsertRowsColsRequests) :
        Serve("excel_insert_cols", req, excel_insert_cols_handler(file, req))

pptx_create ==
    \E req \in CreatePptxRequests :
        Serve("pptx_create", req, pptx_create_handler(file, req))
pptx_add_slide ==
    \E req \in For("pptx", AddSlideRequests) :
        Serve("pptx_add_slide", req, pptx_add_slide_handler(file, req))
pptx_read ==
    \E req \in For("pptx", ReadPptxRequests) :
        Serve("pptx_read", req, pptx_read_handler(file, req))
pptx_add_table ==
    \E req \in For("pptx", AddPptxTableRequests) :
        Serve("pptx_add_table", req, pptx_add_table_handler(file, req))
pptx_update_slide ==
    \E req \in For("pptx", UpdateSlideContentRequests) :
        Serve("pptx_update_slide", req, pptx_update_slide_handler(file, req))
pptx_delete_slide ==
    \E req \in For("pptx", DeleteSlideRequests) :
        Serve("pptx_delete_slide", req, pptx_delete_slide_handler(file, req))
pptx_duplicate_slide ==
    \E req \in For("pptx", DuplicateSlideRequests) :
        Serve("pptx_duplicate_slide", req, pptx_duplicate_slide_handler(file, req))
pptx_set_notes ==
    \E req \in For("pptx", SetSlideNotesRequests) :
        Serve("pptx_set_notes", req, pptx_set_notes_handler(file, req))
pptx_get_slide_info ==
    \E req \in For("pptx", GetSlideInfoRequests) :
        Serve("pptx_get_slide_info", req, pptx_get_slide_info_handler(file, req))
pptx_add_shape ==
    \E req \in For("pptx", AddPptxShapeRequests) :
        Serve("pptx_add_shape", req, pptx_add_shape_handler(file, req))

health == Serve("health", NoData, health_handler(file))

\* The response has gone out; the service waits for the next request.
respond ==
    /\ last # NoRequest
    /\ last' = NoRequest
    /\ UNCHANGED <<file, conc>>

Init ==
    /\ file \in InitFiles
    /\ last = NoRequest
    /\ conc = Idle

Next ==
    \/ word_create
    \/ word_add_content
    \/ word_search_replace
    \/ word_read
    \/ word_add_table
    \/ word_format_text
    \/ word_delete_paragraph
    \/ word_add_hyperlink
    \/ word_add_page_break
    \/ word_header_footer
    \/ excel_create
    \/ excel_write_data
    \/ excel_read
    \/ excel_apply_formula
    \/ excel_format_range
    \/ excel_merge_cells
    \/ excel_delete_sheet
    \/ excel_rename_sheet
    \/ excel_insert_rows
    \/ excel_insert_cols
    \/ pptx_create
    \/ pptx_add_slide
    \/ pptx_read
    \/ pptx_add_table
    \/ pptx_update_slide
    \/ pptx_delete_slide
    \/ pptx_duplicate_slide
    \/ pptx_set_notes
    \/ pptx_get_slide_info
    \/ pptx_add_shape
    \/ health
    \/ respond

Spec == Init /\ [][Next]_vars

(***************************************************************************)
(* The event loop.  uvicorn.run serves the application in one process with *)
(* one event loop; a handler is a coroutine, and the loop runs no other    *)
(* coroutine until the running one awaits or returns.  Two requests for    *)
(* the same path have arrived; each handler is followed step by step.      *)
(***************************************************************************)
Clients == {1, 2}

LoopRequests ==
    {[op |-> "word_add_content", req |-> [paragraphs |-> <<To>>, headings |-> None]],
     [op |-> "word_add_content", req |-> [paragraphs |-> <<Tx>>, headings |-> None]],
     [op |-> "word_delete_paragraph", req |-> [paragraph_index |-> 0]],
     [op |-> "word_search_replace", req |-> [search |-> Tfoo, replace |-> Tx]],
     [op |-> "pptx_add_slide", req |-> SlideData(To, <<>>, <<>>)]}
LoopFiles == {Absent, SplitRunsDocx, ImportedDeck}

\* the handler the route of the request names
Apply(rq, f) ==
    CASE rq.op = "word_add_content" -> word_add_content_handler(f, rq.req)
      [] rq.op = "word_delete_paragraph" -> word_delete_paragraph_handler(f, rq.req)
      [] rq.op = "pptx_add_slide" -> pptx_add_slide_handler(f, rq.req)
      [] OTHER -> word_search_replace_handler(f, rq.req)

\* the container Document(path) / Presentation(path) of the route opens
Opens(rq) == IF rq.op = "pptx_add_slide" THEN "pptx" ELSE "docx"

NoResult == [code |-> 0, detail |-> "none", mem |-> Absent, save |-> FALSE, data |-> NoData]

\* a scheduler that starts a handler while another one is running
AnyCanStart(running) == TRUE

\* no handler awaits: the loop starts a handler only when none is running
LoopCanStart(running) == running = {}

accept(c) ==
    /\ conc.pc[c] = "pending"
    /\ LoopCanStart(conc.running)
    /\ conc' = [conc EXCEPT !.pc[c] = "accepted", !.running = @ \cup {c}]
    /\ UNCHANGED <<file, last>>

\* a handler that works on the document the service held when it started
load_cached(c) ==
    /\ conc.pc[c] = "accepted"
    /\ conc' = IF conc.file0.kind = Opens(conc.req[c])
               THEN [conc EXCEPT !.pc[c] = "loaded", !.doc[c] = conc.file0]
               ELSE [conc EXCEPT !.pc[c] = "responding",
                                 !.res[c] = Apply(conc.req[c], conc.file0)]
    /\ UNCHANGED <<file, last>>

\* doc = Document(req.file_path) / prs = Presentation(req.file_path)
load(c) ==
    /\ conc.pc[c] = "accepted"
    /\ conc' = IF file.kind = Opens(conc.req[c])
               THEN [conc EXCEPT !.pc[c] = "loaded", !.doc[c] = file]
               ELSE [conc EXCEPT !.pc[c] = "responding", !.res[c] = Apply(conc.req[c], file)]
    /\ UNCHANGED <<file, last>>

\* the handler's changes to the tree it loaded
mutate(c) ==
    /\ conc.pc[c] = "loaded"
    /\ LET r == Apply(conc.req[c], conc.doc[c])
       IN conc' = [conc EXCEPT !.res[c] = r,
                               !.pc[c] = IF r.save THEN "mutated" ELSE "responding"]
    /\ UNCHANGED <<file, last>>

\* doc.save(req.file_path)
save(c) ==
    /\ conc.pc[c] = "mutated"
    /\ file' = Persist(conc.res[c], file)
    /\ conc' = [conc EXCEPT !.pc[c] = "responding"]
    /\ UNCHANGED last

\* return ApiResponse(...) / raise HTTPException(...)
return(c) ==
    /\ conc.pc[c] = "responding"
    /\ conc' = [conc EXCEPT !.pc[c] = "done", !.running = @ \ {c},
                            !.order = Append(@, c)]
    /\ UNCHANGED <<file, last>>

loop_accept == \E c \in Clients : accept(c)
loop_load == \E c \in Clients : load(c)
loop_mutate == \E c \in Clients : mutate(c)
loop_save == \E c \in Clients : save(c)
loop_return == \E c \in Clients : return(c)

InitLoop ==
    /\ file \in LoopFiles
    /\ last = NoRequest
    /\ \E rq \in [Clients -> LoopRequests] :
          conc = [pc |-> [c \in Clients |-> "pending"], req |-> rq,
                  doc |-> [c \in Clients |-> Absent],
                  res |-> [c \in Clients |-> NoResult],
                  running |-> {}, order |-> <<>>, file0 |-> file]

NextLoop ==
    \/ loop_accept
    \/ loop_load
    \/ loop_mutate
    \/ loop_save
    \/ loop_return

SpecLoop == InitLoop /\ [][NextLoop]_vars

(***************************************************************************)
(* The claims.  `last` holds the request just served, the file it found    *)
(* (pre) and the response; `file` is the file after it.  "Followed by      *)
(* read" is the read handler applied to `file`.                            *)
(***************************************************************************)
WordIndexOps == {"word_format_text", "word_delete_paragraph"}
SlideIndexOps ==
    {"pptx_add_table", "pptx_update_slide", "pptx_delete_slide", "pptx_duplicate_slide",
     "pptx_set_notes", "pptx_get_slide_info", "pptx_add_shape"}
SheetOps ==
    {"excel_apply_formula", "excel_format_range", "excel_merge_cells",
     "excel_delete_sheet", "excel_rename_sheet", "excel_insert_rows", "excel_insert_cols"}

OutOfRangeResponse == last.code = 400 /\ last.detail = "out_of_range" /\ file = last.pre

\* C1: every index-addressed operation (Word format_text, delete_paragraph; the
\* seven slide-addressed PowerPoint operations) called with an index < 0 or
\* >= the paragraph / slide count fails with the out-of-range error and leaves
\* the file unchanged; a negative paragraph_index never formats or deletes.
C1_IndexOutOfRangeRejected ==
    /\ (/\ last.op \in WordIndexOps
        /\ last.pre.kind = "docx"
        /\ \/ last.req.paragraph_index < 0
           \/ last.req.paragraph_index >= Len(WordReadData(last.pre).paragraphs))
          => OutOfRangeResponse
    /\ (/\ last.op \in SlideIndexOps
        /\ last.pre.kind = "pptx"
        /\ \/ last.req.slide_index < 0
           \/ last.req.slide_index >= NumSlides(last.pre))
          => OutOfRangeResponse

\* C2: a request that fails before the save returns an error and leaves the
\* file exactly as it was; the save is reached on no error path: the only
\* error a request that reached the save returns is the failure of the save
\* itself (a workbook without a visible sheet).
C2_FailureBeforeSaveKeepsFile ==
    /\ (last.op # "none" /\ last.code # 200 /\ ~last.saved) => file = last.pre
    /\ (last.op # "none" /\ last.code # 200 /\ last.saved)
          => (last.mem.kind = "xlsx" /\ ~HasVisibleSheet(last.mem))

\* C2 witness: an unknown table style fails word_add_table after the table was
\* added to the tree in memory; the file is the one the request found.
C2_PartialMutationDiscarded ==
    /\ last.op = "word_add_table"
    /\ last.code = 500
    /\ last.detail = "KeyError"
    /\ last.mem # last.pre
    /\ file = last.pre
    /\ file.kind = "docx"

\* C4: for a document with n body paragraphs and 0 <= i < n, delete_paragraph(i)
\* followed by read returns n - 1 paragraphs: the texts before, without
\* element i, in the same order.
C4_DeleteThenRead ==
    (/\ last.op = "word_delete_paragraph"
     /\ last.pre.kind = "docx"
     /\ last.req.paragraph_index >= 0
     /\ last.req.paragraph_index < Len(WordReadData(last.pre).paragraphs))
    => LET old == WordReadData(last.pre).paragraphs
           i == last.req.paragraph_index
           read == word_read_handler(file, [read |-> "all"])
       IN /\ last.code = 200
          /\ read.code = 200
          /\ Len(read.data.paragraphs) = Len(old) - 1
          /\ \A k \in 1..(Len(old) - 1) :
                read.data.paragraphs[k] = IF k <= i THEN old[k] ELSE old[k + 1]

\* C4 witness: the middle one of three paragraphs is deleted.
C4_MiddleParagraphDeleted ==
    /\ last.op = "word_delete_paragraph"
    /\ last.code = 200
    /\ last.req.paragraph_index = 1
    /\ Len(WordReadData(last.pre).paragraphs) = 3
    /\ Len(WordReadData(file).paragraphs) = 2

\* no entry of the slide list without its relationship, no slide relationship
\* without its entry
RelsConsistent(prs) ==
    /\ \A i \in 1..Len(prs.sldIdLst) : prs.sldIdLst[i] \in DOMAIN prs.rels
    /\ \A r \in DOMAIN prs.rels : \E i \in 1..Len(prs.sldIdLst) : prs.sldIdLst[i] = r

\* C5: delete_slide(k), 0 <= k < N, leaves N - 1 slides, the others in their
\* order with their content, and the relationship id of the deleted entry is
\* no longer in the relationship table; every presentation the service leaves
\* has, for every slide-list entry, its relationship in the table, and no
\* slide relationship without an entry.
C5_DeleteSlide ==
    /\ (/\ last.op = "pptx_delete_slide"
        /\ last.pre.kind = "pptx"
        /\ last.req.slide_index >= 0
        /\ last.req.slide_index < NumSlides(last.pre))
       => LET k == last.req.slide_index
              N == NumSlides(last.pre)
          IN /\ last.code = 200
             /\ file.kind = "pptx"
             /\ NumSlides(file) = N - 1
             /\ Len(PptxReadData(file)) = N - 1
             /\ \A j \in 0..(N - 2) :
                   SlideAt(file, j) = SlideAt(last.pre, IF j < k THEN j ELSE j + 1)
             /\ last.pre.sldIdLst[k + 1] \notin DOMAIN file.rels
    /\ file.kind = "pptx" => RelsConsistent(file)

\* C5 witness: the middle one of three slides is deleted.
C5_MiddleSlideDeleted ==
    /\ last.op = "pptx_delete_slide"
    /\ last.code = 200
    /\ last.req.slide_index = 1
    /\ NumSlides(last.pre) = 3
    /\ NumSlides(file) = 2
    /\ SlideAt(file, 0) # SlideAt(file, 1)

\* C6: duplicate_slide(k), 0 <= k < N, appends one slide at position N whose
\* shape text, as read returns it, equals the shape text read returns for
\* slide k; slides 0..N-1 keep their count, order and content.
C6_DuplicateSameText ==
    (/\ last.op = "pptx_duplicate_slide"
     /\ last.pre.kind = "pptx"
     /\ last.req.slide_index >= 0
     /\ last.req.slide_index < NumSlides(last.pre))
    => LET k == last.req.slide_index
           N == NumSlides(last.pre)
       IN /\ last.code = 200
          /\ file.kind = "pptx"
          /\ NumSlides(file) = N + 1
          /\ PptxReadData(file)[N + 1].text = PptxReadData(last.pre)[k + 1].text
          /\ \A j \in 1..N : PptxReadData(file)[j] = PptxReadData(last.pre)[j]

\* the runs of the body's paragraphs whose own text holds the search string
HitRuns(doc, search) ==
    UNION {{<<i, j>> : j \in {k \in 1..Len(doc.body[i].runs) :
                                 Contains(doc.body[i].runs[k].text, search)}} :
              i \in {n \in 1..Len(doc.body) : doc.body[n].type = "p"}}

\* C7: search_replace returns the number of runs whose own text contains the
\* search string, one per run; in those runs every occurrence is replaced; a
\* run that does not contain it, and every other part of the document, is
\* unchanged, so a match across a run boundary counts 0 and changes nothing.
C7_RunScopedReplace ==
    (last.op = "word_search_replace" /\ last.pre.kind = "docx")
    => LET old == last.pre
           search == last.req.search
       IN /\ last.code = 200
          /\ last.data.count = Cardinality(HitRuns(old, search))
          /\ file.kind = "docx"
          /\ Len(file.body) = Len(old.body)
          /\ \A i \in 1..Len(old.body) :
                IF old.body[i].type # "p" THEN file.body[i] = old.body[i]
                ELSE /\ file.body[i].type = "p"
                     /\ Len(file.body[i].runs) = Len(old.body[i].runs)
                     /\ \A j \in 1..Len(old.body[i].runs) :
                           file.body[i].runs[j] =
                              IF <<i, j>> \in HitRuns(old, search)
                              THEN [old.body[i].runs[j] EXCEPT
                                       !.text = PyReplace(@, search, last.req.replace)]
                              ELSE old.body[i].runs[j]

\* C7 witness: "foo" lies across the runs "fo" and "o" of the only paragraph
\* that holds it: count 0 and the file is unchanged.
C7_MatchAcrossRuns ==
    /\ last.op = "word_search_replace"
    /\ last.code = 200
    /\ last.req.search = Tfoo
    /\ last.data.count = 0
    /\ \E i \in 1..Len(last.pre.body) :
          /\ last.pre.body[i].type = "p"
          /\ Len(last.pre.body[i].runs) = 2
          /\ Contains(ParaText(last.pre.body[i]), Tfoo)
    /\ file = last.pre

\* the value of position <<r, c>> (from 0) of the table the request describes
ExpectedCell(req, r, c) ==
    IF req.headers # <<>> /\ r = 0 THEN req.headers[c + 1]
    ELSE LET row == req.rows[r + 1 - (IF req.headers # <<>> THEN 1 ELSE 0)]
         IN IF c < Len(row) THEN row[c + 1] ELSE <<>>

\* C8: add_table followed by read yields as last table a grid with as many
\* columns as headers, else as the first data row has values, else 1, and
\* (1 if headers else 0) + number of data rows rows; row 0 holds the headers,
\* each data row its values in order, those at or past the column count
\* dropped, missing positions empty; no request writes outside the grid.
C8_AddTableGrid ==
    (last.op = "word_add_table" /\ last.pre.kind = "docx")
    => LET req == last.req
           ncols == IF req.headers # <<>> THEN Len(req.headers)
                    ELSE IF req.rows # <<>> THEN Len(req.rows[1]) ELSE 1
           nrows == (IF req.headers # <<>> THEN 1 ELSE 0) + Len(req.rows)
           read == word_read_handler(file, [read |-> "all"])
           tables == read.data.tables
       IN /\ last.detail # "IndexError"
          /\ last.code = 200 \/ last.detail = "KeyError"
          /\ last.code = 200 =>
                /\ read.code = 200
                /\ Len(tables) = Len(WordReadData(last.pre).tables) + 1
                /\ Len(tables[Len(tables)]) = nrows
                /\ last.data = [rows |-> nrows, cols |-> ncols]
                /\ \A r \in 0..(nrows - 1) :
                      /\ Len(tables[Len(tables)][r + 1]) = ncols
                      /\ \A c \in 0..(ncols - 1) :
                            tables[Len(tables)][r + 1][c + 1] = ExpectedCell(req, r, c)

\* C8 witness: a table with headers, a short data row and a data row longer
\* than the header row.
C8_RaggedRowsTable ==
    /\ last.op = "word_add_table"
    /\ last.code = 200
    /\ last.req.headers = <<TA, TB>>
    /\ Len(last.req.rows) = 2
    /\ Len(last.req.rows[2]) = 3
    /\ WordReadData(file).tables[Len(WordReadData(file).tables)] =
          << <<TA, TB>>, <<To, <<>>>>, <<To, Tfo>> >>

\* the value excel_read returns for position <<r, c>> of a sheet
ReadCell(wb, name, r, c) ==
    LET data == excel_read_handler(wb, [sheet_name |-> Some(name)]).data
    IN IF Len(data) = 1 /\ r <= Len(data[1].rows) /\ c <= Len(data[1].rows[r])
       THEN Some(data[1].rows[r][c]) ELSE None

\* the cells write_data(headers, rows) addresses
WrittenCells(req) ==
    {<<1, c>> : c \in 1..Len(req.headers)}
        \cup UNION {{<<r + 1, c>> : c \in 1..Len(req.rows[r])} : r \in 1..Len(req.rows)}

\* C9: write_data creates the sheet if its name is absent, sets cell (1, c) to
\* headers[c-1] and cell (r+1, c) to rows[r-1][c-1], leaves every other cell
\* of that sheet and every other sheet unchanged, and a following read of the
\* sheet returns the written values as strings at those positions.
C9_WriteDataLayout ==
    (last.op = "excel_write_data" /\ last.pre.kind = "xlsx")
    => LET req == last.req
           name == req.sheet_name
       IN /\ last.code = 200
          /\ file.kind = "xlsx"
          /\ HasSheet(file, name)
          /\ \A c \in 1..Len(req.headers) :
                ReadCell(file, name, 1, c) = Some(req.headers[c])
          /\ \A r \in 1..Len(req.rows) : \A c \in 1..Len(req.rows[r]) :
                ReadCell(file, name, r + 1, c) = Some(req.rows[r][c])
          /\ \A i \in 1..Len(last.pre.sheets) :
                LET sh == last.pre.sheets[i]
                IN /\ HasSheet(file, sh.name)
                   /\ \A q \in DOMAIN sh.cells :
                         (sh.name # name \/ q \notin WrittenCells(req))
                            => ReadCell(file, sh.name, q[1], q[2])
                                  = ReadCell(last.pre, sh.name, q[1], q[2])

\* C10: an Excel operation that requires an existing sheet, given a name that
\* is not exactly one of the workbook's sheet names, fails with the not-found
\* error; the workbook is not saved and no sheet is created.
C10_MissingSheetNotFound ==
    (/\ last.op \in SheetOps
     /\ last.pre.kind = "xlsx"
     /\ \A i \in 1..Len(last.pre.sheets) : last.pre.sheets[i].name # last.req.sheet_name)
    => /\ last.code = 400
       /\ last.detail = "not_found"
       /\ ~last.saved
       /\ file = last.pre

\* C10 witness: the workbook has a sheet "D" and the request names "d".
C10_CaseVariantRefused ==
    /\ last.op \in SheetOps
    /\ last.pre.kind = "xlsx"
    /\ last.req.sheet_name = Nd
    /\ \E i \in 1..Len(last.pre.sheets) : last.pre.sheets[i].name = ND
    /\ \A i \in 1..Len(last.pre.sheets) : last.pre.sheets[i].name # Nd
    /\ last.code = 400
    /\ file = last.pre

\* between its load and its save
InCycle(c) == conc.pc[c] \in {"loaded", "mutated"}

\* the file after the requests of the clients in `order`, one after the other
RECURSIVE Serial(_, _)
Serial(f, order) ==
    IF order = <<>> THEN f
    ELSE Serial(Persist(Apply(conc.req[Head(order)], f), f), Tail(order))

\* C3 as stated: two requests that mutate the same path can have their
\* load-mutate-save cycles overlap: while one handler is between its load and
\* its save, the other, pending, request can be started.
C3_CyclesCanOverlap ==
    \A a \in Clients : \A b \in Clients \ {a} :
        (InCycle(a) /\ conc.pc[b] = "pending") => ENABLED accept(b)

\* C3 amended: in the service's event loop the load-mutate-save cycles of two
\* requests for the same path never overlap (never have both loaded before
\* either saved), and when both have returned the file is the one their
\* serial execution, in the order they returned, leaves: no update is lost.
C3_CyclesNeverOverlap ==
    /\ \A a \in Clients : \A b \in Clients \ {a} : ~(InCycle(a) /\ InCycle(b))
    /\ \A a \in Clients : \A b \in Clients \ {a} :
          InCycle(a) => conc.pc[b] \in {"pending", "done"}
    /\ (\A c \in Clients : conc.pc[c] = "done") => file = Serial(conc.file0, conc.order)

\* C3 witness: both add_content requests have returned success and the file
\* holds the paragraph of each.
C3_BothUpdatesKept ==
    /\ \A c \in Clients : conc.pc[c] = "done" /\ conc.res[c].code = 200
    /\ conc.req[1].op = "word_add_content"
    /\ conc.req[2].op = "word_add_content"
    /\ conc.req[1] # conc.req[2]
    /\ file.kind = "docx"
    /\ Len(file.body) = Len(conc.file0.body) + 2
    /\ \A c \in Clients :
          \E i \in 1..Len(file.body) :
              file.body[i].type = "p"
                 /\ ParaText(file.body[i]) = conc.req[c].req.paragraphs[1]
                 /\ i > Len(conc.file0.body)

NonOpeningOps == {"none", "word_create", "excel_create", "pptx_create", "health"}

\* C12: an operation that opens an existing document, on a path that does not
\* exist, fails with the not-found kind (the response a missing sheet gets,
\* not the one other failures get) and creates no file at that path.
C12_MissingFileNotFound ==
    (last.op \notin NonOpeningOps /\ last.pre = Absent)
    => /\ last.code = 400
       /\ last.detail = "not_found"
       /\ file = Absent

\* the slide update_slide is claimed to leave: title, content and notes are
\* overwritten where the request sets them and the target exists
ClaimedUpdate(s0, req) ==
    LET t == TitlePosition(s0)
        c == IF Cardinality(PlaceholderPositions(s0)) > 1 THEN FirstWithIdx(s0, 1) ELSE 0
    IN [s0 EXCEPT
          !.shapes = [k \in 1..Len(s0.shapes) |->
                         IF k = c /\ IsSet(req.content)
                         THEN [s0.shapes[k] EXCEPT !.text = Val(req.content)]
                         ELSE IF k = t /\ IsSet(req.title)
                         THEN [s0.shapes[k] EXCEPT !.text = Val(req.title)]
                         ELSE s0.shapes[k]],
          !.notes = IF IsSet(req.notes) /\ IsSet(s0.notes) THEN req.notes ELSE s0.notes]

\* C13: update_slide on a valid index overwrites the title only if the request
\* sets it and the slide has a title placeholder, the content only if set and
\* a second placeholder exists, the notes only if set and the slide already
\* has a notes frame; everything else is left as it was, and a slide without
\* a notes page still has none afterwards.
C13_UpdateOnlyExistingTargets ==
    (/\ last.op = "pptx_update_slide"
     /\ last.pre.kind = "pptx"
     /\ ~SlideIndexRejected(last.req.slide_index, NumSlides(last.pre)))
    => /\ last.code = 200
       /\ file = PutSlide(last.pre, last.req.slide_index,
                          ClaimedUpdate(SlideAt(last.pre, last.req.slide_index), last.req))

\* the preset the shape_type keys of the requests stand for
ClaimedPreset(shape_type) ==
    CASE shape_type = OvalName -> "OVAL"
      [] shape_type = CloudName -> "CLOUD"
      [] OTHER -> "RECTANGLE"

\* C14: add_shape on a valid slide index never fails because of shape_type:
\* the request fails only for a fill colour that is no RGB value, whatever the
\* key; the key is looked up without regard to case, an unrecognized key gives
\* a rectangle; the slide gains exactly one shape, appended after the others,
\* and nothing else in the deck changes.
C14_AnyShapeTypeAccepted ==
    (/\ last.op = "pptx_add_shape"
     /\ last.pre.kind = "pptx"
     /\ ~SlideIndexRejected(last.req.slide_index, NumSlides(last.pre)))
    => LET req == last.req
           s0 == SlideAt(last.pre, req.slide_index)
           colour == IsSet(req.fill_color) /\ Val(req.fill_color) # <<>>
           badColour == colour /\ ~ValidRGB(LStrip(Val(req.fill_color), "#"))
       IN /\ last.code = (IF badColour THEN 500 ELSE 200)
          /\ badColour => file = last.pre
          /\ ~badColour =>
                \E sh \in {SlideAt(file, req.slide_index).shapes[Len(s0.shapes) + 1]} :
                   /\ sh.geom = ClaimedPreset(req.shape_type)
                   /\ sh.text = req.text
                   /\ ~IsSet(sh.ph)
                   /\ file = PutSlide(last.pre, req.slide_index,
                                      [s0 EXCEPT !.shapes = Append(@, sh)])

\* C14 witness: an unknown key and a key in other case than the table's have
\* been served: the first gave a rectangle, the second its preset.
C14_UnknownKeyIsRectangle ==
    /\ last.op = "pptx_add_shape"
    /\ last.code = 200
    /\ last.req.shape_type = BadTypeName
    /\ LET shapes == SlideAt(file, last.req.slide_index).shapes
       IN /\ shapes[Len(shapes)].geom = "RECTANGLE"
          /\ \E k \in 1..(Len(shapes) - 1) : shapes[k].geom = "OVAL"

\* the headings of an add_content request, and whether docx takes their levels
GivenHeadings(req) == IF IsSet(req.headings) THEN Val(req.headings) ELSE <<>>
LevelsValid(req) ==
    \A j \in 1..Len(GivenHeadings(req)) :
        LET h == GivenHeadings(req)[j]
        IN IsSet(h.level) => (0 <= Val(h.level) /\ Val(h.level) <= 9)

\* C15: add_content on a document whose paragraph list is L, with headings
\* H1..Hm and paragraphs P1..Pn, gives the paragraph list L, then the texts of
\* H1..Hm in the given order, then P1..Pn in the given order; the existing
\* blocks are unchanged and a heading without a level gets level 1.
C15_HeadingsThenParagraphs ==
    (/\ last.op = "word_add_content"
     /\ last.pre.kind = "docx"
     /\ LevelsValid(last.req))
    => LET hs == GivenHeadings(last.req)
           ps == last.req.paragraphs
           n0 == Len(last.pre.body)
       IN /\ last.code = 200
          /\ file.kind = "docx"
          /\ WordReadData(file).paragraphs =
                WordReadData(last.pre).paragraphs
                   \o [j \in 1..Len(hs) |-> IF IsSet(hs[j].text) THEN Val(hs[j].text) ELSE <<>>]
                   \o ps
          /\ WordReadData(file).tables = WordReadData(last.pre).tables
          /\ Len(file.body) = n0 + Len(hs) + Len(ps)
          /\ SubSeq(file.body, 1, n0) = last.pre.body
          /\ \A j \in 1..Len(hs) :
                ~IsSet(hs[j].level) => file.body[n0 + j].style = <<"Heading", 1>>
          /\ \A j \in 1..Len(ps) : file.body[n0 + Len(hs) + j].style = Normal

\* C15 witness: a heading without a level and a plain paragraph were added in
\* one request; the heading, at level 1, is read before the paragraph.
C15_HeadingBeforeParagraph ==
    /\ last.op = "word_add_content"
    /\ last.code = 200
    /\ last.req.headings = Some(<<Heading1>>)
    /\ last.req.paragraphs = <<Tfoo>>
    /\ WordReadData(file).paragraphs = WordReadData(last.pre).paragraphs \o <<To, Tfoo>>
    /\ file.body[Len(file.body) - 1].style = <<"Heading", 1>>

ReadOps == {"word_read", "excel_read", "pptx_read", "pptx_get_slide_info", "health"}

\* C16: the read-type operations and the health probe never change a file:
\* after any of them, successful or failed, the file is what it was, nothing
\* was saved, and the document they loaded was not changed in memory either
\* (no notes page is made for a slide that has none).
C16_ReadsChangeNothing ==
    last.op \in ReadOps
    => /\ file = last.pre
       /\ ~last.saved
       /\ last.mem = last.pre

\* C16 witness: get_slide_info answered for a slide without a notes page; it
\* reported empty notes and the slide still has no notes page.
C16_InfoWithoutNotesPage ==
    /\ last.op = "pptx_get_slide_info"
    /\ last.code = 200
    /\ last.data.notes = <<>>
    /\ Len(last.data.shapes) > 0
    /\ ~IsSet(SlideAt(file, last.req.slide_index).notes)
    /\ \E r \in DOMAIN file.rels : IsSet(file.rels[r].notes)

\* C17: set_notes(k, text) with a valid index k makes a following read return
\* notes equal to text for slide k, whether or not the slide had a notes page
\* and also for the empty text; the notes and shape text of every other
\* slide, the shape text of slide k and the slide count are unchanged.
C17_SetNotesThenRead ==
    (/\ last.op = "pptx_set_notes"
     /\ last.pre.kind = "pptx"
     /\ ~SlideIndexRejected(last.req.slide_index, NumSlides(last.pre)))
    => LET k == last.req.slide_index
           before == PptxReadData(last.pre)
           after == pptx_read_handler(file, NoData)
       IN /\ last.code = 200
          /\ after.code = 200
          /\ Len(after.data) = Len(before)
          /\ after.data[k + 1].notes = last.req.notes
          /\ after.data[k + 1].text = before[k + 1].text
          /\ IsSet(SlideAt(file, k).notes)
          /\ \A j \in 1..Len(before) : j # k + 1 => after.data[j] = before[j]
          /\ \A j \in 0..(Len(before) - 1) :
                j # k => SlideAt(file, j) = SlideAt(last.pre, j)

\* C17 witness: set_notes with the empty text on a slide without a notes page
\* of a deck of two slides; the slide has a notes page afterwards.
C17_EmptyNotesPageCreated ==
    /\ last.op = "pptx_set_notes"
    /\ last.code = 200
    /\ last.req.notes = <<>>
    /\ NumSlides(last.pre) = 2
    /\ ~IsSet(SlideAt(last.pre, last.req.slide_index).notes)
    /\ IsSet(SlideAt(file, last.req.slide_index).notes)
    /\ PptxReadData(file)[last.req.slide_index + 1].notes = <<>>

\* the orders in which the requests of the clients can be served one by one
SerialOrders == {o \in [1..Cardinality(Clients) -> Clients] : \A c \in Clients : \E i \in DOMAIN o : o[i] = c}

\* C18: every handler runs from its open to its save without an await in the
\* one event loop of the one process: the steps of a request are never
\* interleaved with those of another (while a handler runs, every other
\* request is waiting or has returned, and the document the handler holds is
\* the one the file holds), and whenever no handler runs the file is the one
\* the returned requests leave when applied one after another; when all have
\* returned it is the result of one of the serial orders.
C18_SerialWithinOneLoop ==
    /\ Cardinality(conc.running) <= 1
    /\ \A c \in Clients :
          conc.pc[c] \in {"accepted", "loaded", "mutated", "responding"}
             => conc.running = {c}
    /\ \A c \in Clients : InCycle(c) => conc.doc[c] = file
    /\ conc.running = {} => file = Serial(conc.file0, conc.order)
    /\ (\A c \in Clients : conc.pc[c] = "done")
          => \E o \in SerialOrders : file = Serial(conc.file0, o)

\* C18 witness: two add_slide requests for the same deck have both returned
\* success and the deck holds the slide of each.
C18_BothSlidesAdded ==
    /\ \A c \in Clients :
          /\ conc.pc[c] = "done"
          /\ conc.res[c].code = 200
          /\ conc.req[c].op = "pptx_add_slide"
    /\ file.kind = "pptx"
    /\ NumSlides(file) = NumSlides(conc.file0) + 2
    /\ \A i \in 1..2 : PptxReadData(file)[NumSlides(conc.file0) + i].text = <<"o", "\n">>

\* C19 as stated: excel_read given a sheet name that is not in the workbook
\* returns success with an empty sheets mapping, and every other operation
\* that addresses a sheet by name reports such a name as not found.
C19_OnlyReadSkipsAbsentSheet ==
    /\ (/\ last.op = "excel_read"
        /\ last.pre.kind = "xlsx"
        /\ IsSet(last.req.sheet_name)
        /\ ~HasSheet(last.pre, Val(last.req.sheet_name)))
          => (last.code = 200 /\ last.data = <<>>)
    /\ (/\ last.op \in SheetOps \cup {"excel_write_data"}
        /\ last.pre.kind = "xlsx"
        /\ ~HasSheet(last.pre, last.req.sheet_name))
          => (last.code = 400 /\ last.detail = "not_found")

\* C19 amended: excel_read given a non-empty sheet name that is not in the
\* workbook returns success with an empty sheets mapping and changes nothing;
\* given the empty name it reads every sheet, as when no name is given.  The
\* seven operations that need an existing sheet report the name as not found;
\* write_data does not, it makes the sheet.
C19_ReadSkipsAbsentSheet ==
    /\ (/\ last.op = "excel_read"
        /\ last.pre.kind = "xlsx"
        /\ IsSet(last.req.sheet_name)
        /\ ~HasSheet(last.pre, Val(last.req.sheet_name)))
          => /\ last.code = 200
             /\ file = last.pre
             /\ IF Val(last.req.sheet_name) # <<>>
                THEN last.data = <<>>
                ELSE /\ last.data = excel_read_handler(last.pre, [sheet_name |-> None]).data
                     /\ Len(last.data) = Len(last.pre.sheets)
    /\ (/\ last.op \in SheetOps
        /\ last.pre.kind = "xlsx"
        /\ ~HasSheet(last.pre, last.req.sheet_name))
          => (last.code = 400 /\ last.detail = "not_found" /\ file = last.pre)
    /\ (/\ last.op = "excel_write_data"
        /\ last.pre.kind = "xlsx"
        /\ ~HasSheet(last.pre, last.req.sheet_name))
          => /\ last.detail # "not_found"
             /\ last.mem.kind = "xlsx"
             /\ Len(last.mem.sheets) = Len(last.pre.sheets) + 1

\* C19 witness: a read of sheet "d" of a workbook that has sheets, none of that
\* name, answered success with no sheet in the mapping.
C19_AbsentSheetReadEmpty ==
    /\ last.op = "excel_read"
    /\ last.code = 200
    /\ last.req.sheet_name = Some(Nd)
    /\ last.pre.kind = "xlsx"
    /\ Len(last.pre.sheets) > 0
    /\ ~HasSheet(last.pre, Nd)
    /\ last.data = <<>>

====
